---- MODULE Spec2Model ----
(***************************************************************************)
(* A model of the calibration core of flexcalc/process.py:                 *)
(*   - register_volumes and _find_best_flip_ (rigid registration),        *)
(*   - _find_shift_ and append_tile (robust shift, mosaic accumulation),  *)
(*   - optimize_rotation_center, optimize_modifier, _parabolic_min_       *)
(*     (hierarchical scalar calibration).                                  *)
(* Each operation is a small step machine; the external collaborators     *)
(* (numpy.linalg.eig, scipy.ndimage, SimpleITK, skimage, the FDK cost)    *)
(* are nondeterministic choices over small sets of outcomes.              *)
(***************************************************************************)
EXTENDS Integers, Sequences, FiniteSets, TLC

VARIABLES
    \* register_volumes
    reg_pc, reg_in, reg_vol, reg_calls, reg_R, reg_T, reg_pre, reg_out, reg_L2,
    reg_result,
    \* _find_best_flip_
    flip_pc, flip_in, flip_ii, flip_Lmax, flip_best, flip_scores, flip_result,
    \* _itk_registration_ (the Continuous Refiner): which local optimum it finds
    itk_kind,
    \* optimize_rotation_center
    cal_pc, cal_in, cal_subscale, cal_guess, cal_levels, cal_flagged,
    cal_trials, cal_costs, cal_evals, cal_result,
    \* the caller's geometry, and the geometry the reconstruction was given
    cal_geom,
    \* append_tile
    tile_pc, tile_in, tile_off, tile_rows, tile_result,
    \* append_tile: the mosaic tot_data (modified in place), the weight maps
    tile_tot, tile_w,
    \* _find_shift_
    fs_pc, fs_in, fs_ii, fs_shifts, fs_log, fs_result,
    \* register_astra_geometry: its position, argument and result
    astra,
    \* the global dictionary project.settings
    settings

regVars  == <<reg_pc, reg_in, reg_vol, reg_calls, reg_R, reg_T, reg_pre, reg_out, reg_L2,
              reg_result>>
flipVars == <<flip_pc, flip_in, flip_ii, flip_Lmax, flip_best, flip_scores, flip_result>>
calVars  == <<cal_pc, cal_in, cal_subscale, cal_guess, cal_levels, cal_flagged,
              cal_trials, cal_costs, cal_evals, cal_result, cal_geom>>
tileVars == <<tile_pc, tile_in, tile_off, tile_rows, tile_result, tile_tot, tile_w>>
fsVars   == <<fs_pc, fs_in, fs_ii, fs_shifts, fs_log, fs_result>>
vars     == <<regVars, flipVars, itk_kind, calVars, tileVars, fsVars, astra, settings>>

\* what an operation leaves alone: the state of the other operations
otherThanReg  == <<calVars, tileVars, fsVars, astra, settings>>
otherThanCal  == <<regVars, flipVars, itk_kind, tileVars, fsVars, astra>>
otherThanTile == <<regVars, flipVars, itk_kind, calVars, astra, settings>>

---------------------------------------------------------------------------
(* Bounds of the model. *)

\* L2 scores are drawn from 0..MaxScore.
MaxScore == 1
\* subsamp is drawn from 1..MaxSubsamp.
MaxSubsamp == 2
\* the starting subscale of the calibrator is drawn from 0..MaxSubscale.
MaxSubscale == 4
\* a tile holds enough projections for at most MaxSlices sampled slices.
MaxSlices == 3

Scores == 0..MaxScore

---------------------------------------------------------------------------
(* 3-vectors and 3x3 matrices over the integers.  Rotations are kept in    *)
(* the group of axis-aligned rotations, where every entry is -1, 0 or 1.   *)

Idx3 == 1..3

Zero3 == <<0, 0, 0>>

\* numpy.eye(3), and the identity built entry by entry in register_volumes
Eye3 == <<<<1, 0, 0>>, <<0, 1, 0>>, <<0, 0, 1>>>>

VecAdd(a, b) == [i \in Idx3 |-> a[i] + b[i]]

VecSub(a, b) == [i \in Idx3 |-> a[i] - b[i]]

VecScale(a, k) == [i \in Idx3 |-> a[i] * k]

\* elementwise a / k of a vector whose components are multiples of k
VecDiv(a, k) == [i \in Idx3 |-> a[i] \div k]

\* A.dot(B) for two matrices
MatMul(A, B) ==
    [i \in Idx3 |-> [j \in Idx3 |-> A[i][1] * B[1][j] + A[i][2] * B[2][j] + A[i][3] * B[3][j]]]

\* A.T
Transpose(A) == [i \in Idx3 |-> [j \in Idx3 |-> A[j][i]]]

\* numpy.dot(v, A) for a vector v: the row vector times the matrix
VecMat(v, A) == [j \in Idx3 |-> v[1] * A[1][j] + v[2] * A[2][j] + v[3] * A[3][j]]

\* cos and sin of k quarter turns
CosQ(k) == CASE k % 4 = 0 -> 1 [] k % 4 = 2 -> -1 [] OTHER -> 0

SinQ(k) == CASE k % 4 = 1 -> 1 [] k % 4 = 3 -> -1 [] OTHER -> 0

\* transforms3d.euler.axangle2mat(axis, k * pi/2) for a unit axis (Rodrigues)
AxAngle2Mat(a, k) ==
    LET c == CosQ(k)
        s == SinQ(k)
        K == <<<<0, -a[3], a[2]>>, <<a[3], 0, -a[1]>>, <<-a[2], a[1], 0>>>>
    IN  [i \in Idx3 |-> [j \in Idx3 |->
            c * Eye3[i][j] + s * K[i][j] + (1 - c) * a[i] * a[j]]]

---------------------------------------------------------------------------
(* _generate_flips_ *)

\* the three nested angles jj = 0, 1, 2 of one axis
AxisFlips(Rfix, ii) == [jj \in 1..3 |-> AxAngle2Mat(Rfix[ii], jj)]

\* a plausible variant (left in the source as a comment): only the half
\* turn about each axis
GenerateFlipsHalfTurns(Rfix) ==
    <<Eye3, AxAngle2Mat(Rfix[1], 2), AxAngle2Mat(Rfix[2], 2), AxAngle2Mat(Rfix[3], 2)>>

\* lines 558-567: the identity, then three angles for each of the three axes
GenerateFlips(Rfix) ==
    <<Eye3>> \o AxisFlips(Rfix, 1) \o AxisFlips(Rfix, 2) \o AxisFlips(Rfix, 3)

---------------------------------------------------------------------------
(* Inputs of the registration. *)

\* volume shapes (Z, Y, X)
ShapeSet == {<<4, 4, 4>>, <<4, 6, 4>>}

\* a quarter turn about the third axis
RotZ == <<<<0, 1, 0>>, <<-1, 0, 0>>, <<0, 0, 1>>>>

\* the sub-sampling of _find_best_flip_ (its default argument)
sample == 2

\* Translations are kept in fixed point, in units of 1/sample voxel, so that
\* the division by sample in _find_best_flip_ is exact.
FixedPoint(v) == VecScale(v, sample)

\* What moments_orientation reports for the two volumes: the centroids (in
\* voxels, relative to the volume centre) and the principal-axis frames
\* (rows are the axes) that numpy.linalg.eig finds.
MomentSet ==
    { [Rfix |-> Eye3, Tfix |-> FixedPoint(Zero3), Rmov |-> Eye3, Tmov |-> FixedPoint(Zero3)],
      [Rfix |-> RotZ, Tfix |-> FixedPoint(<<2, 0, 0>>),
       Rmov |-> Eye3, Tmov |-> FixedPoint(<<0, 1, 0>>)] }

\* the moments of a volume and itself: the same frame and centroid twice
SameMomentSet ==
    { [Rfix |-> Eye3, Tfix |-> FixedPoint(Zero3), Rmov |-> Eye3, Tmov |-> FixedPoint(Zero3)],
      [Rfix |-> RotZ, Tfix |-> FixedPoint(<<2, 0, 0>>),
       Rmov |-> RotZ, Tmov |-> FixedPoint(<<2, 0, 0>>)] }

\* moments_orientation of the two working volumes: a function of the voxels,
\* so equal volumes have equal moments
MomentsOf(fixed_0, moving_0) ==
    IF fixed_0 = moving_0 THEN SameMomentSet ELSE MomentSet

\* A volume is known by the voxels on one of its lines along the last axis.
VolumePairs ==
    { [fixed |-> <<0, 1, 2, 3>>, moving |-> <<3, 2, 1, 0>>],
      [fixed |-> <<0, 3, 2, 2>>, moving |-> <<0, 3, 2, 2>>],
      [fixed |-> <<1, 1, 1, 1>>, moving |-> <<0, 3, 3, 3>>],
      [fixed |-> <<0, 1, 2, 3>>, moving |-> <<0, 0, 0, 0>>] }

\* before the volumes are read
NoVolumes == [given |-> <<>>, fixed |-> <<>>, moving |-> <<>>,
              sub_fixed |-> <<>>, sub_moving |-> <<>>, threshold |-> <<>>,
              fixed_0 |-> <<>>, moving_0 |-> <<>>]

\* line[::k]
Decimate(line, k) == [i \in 1..((Len(line) + k - 1) \div k) |-> line[(i - 1) * k + 1]]

\* a plausible slip: the slice is used without .copy(), so it is a view
SliceIsViewAlways(k) == TRUE

\* lines 588-589: data[::k, ::k, ::k].copy() is a new array, not a view
SliceIsView(k) == FALSE

\* what the caller's array holds after the working array "work" was
\* written: the same as before, unless the working array is a view of it
CallerArray(line, k, work) ==
    IF SliceIsView(k)
      THEN [i \in 1..Len(line) |->
              IF (i - 1) % k = 0 THEN work[((i - 1) \div k) + 1] ELSE line[i]]
      ELSE line

\* threshold_otsu(samples): a value between the smallest and the largest sample
OtsuSet(samples) ==
    { t \in 0..3 : /\ \E i \in 1..Len(samples) : samples[i] <= t
                   /\ \E i \in 1..Len(samples) : samples[i] >= t }

\* a plausible slip: voxels equal to the threshold are removed as well
ApplyThresholdAtOrBelow(line, t) ==
    [i \in 1..Len(line) |-> IF line[i] <= t THEN 0 ELSE line[i]]

\* lines 596-597: data[data < threshold] = 0
ApplyThreshold(line, t) ==
    [i \in 1..Len(line) |-> IF line[i] < t THEN 0 ELSE line[i]]

\* the outcomes of the Continuous Refiner: it stays at the initial pose, or
\* moves to another one (a quarter turn about the first axis and a shift)
ItkKinds == {"stay", "move"}

\* norm(+inf): the start value of Lmax
Inf == -1

\* Lmax > L for Lmax in Scores or Inf
LGreater(a, b) == IF a = Inf THEN b # Inf ELSE (b # Inf /\ a > b)

\* the unassigned local variables Rtot, Ttot of _find_best_flip_
Unbound == [R |-> <<>>, T |-> <<>>]

---------------------------------------------------------------------------
(* Rational numbers <<n, d>> with d > 0 in lowest terms; <<0, 0>> stands    *)
(* for the nan a floating-point division by zero leaves.                    *)

Abs(n) == IF n < 0 THEN -n ELSE n

RECURSIVE GCD(_, _)
GCD(a, b) == IF b = 0 THEN a ELSE GCD(b, a % b)

RNaN == <<0, 0>>

RNorm(n, d) ==
    IF d = 0 THEN RNaN
    ELSE LET g == GCD(Abs(n), Abs(d))
             sg == IF d < 0 THEN -1 ELSE 1
         IN  <<(sg * n) \div g, (sg * d) \div g>>

RInt(k) == <<k, 1>>

RNeg(a) == <<-a[1], a[2]>>

\* the operands are reduced before they are multiplied, to keep numbers small
RAdd(a, b) ==
    IF a[2] = 0 \/ b[2] = 0 THEN RNaN
    ELSE LET g == GCD(a[2], b[2])
         IN  RNorm(a[1] * (b[2] \div g) + b[1] * (a[2] \div g), (a[2] \div g) * b[2])

RSub(a, b) == RAdd(a, RNeg(b))

RMul(a, b) ==
    IF a[2] = 0 \/ b[2] = 0 THEN RNaN
    ELSE LET g1 == GCD(Abs(a[1]), b[2])
             g2 == GCD(Abs(b[1]), a[2])
         IN  RNorm((a[1] \div g1) * (b[1] \div g2), (a[2] \div g2) * (b[2] \div g1))

\* a / b; a division by zero leaves nan (numpy warns and goes on)
RDiv(a, b) ==
    IF b[1] = 0 THEN RNaN
    ELSE RMul(a, IF b[1] < 0 THEN <<-b[2], -b[1]>> ELSE <<b[2], b[1]>>)

\* a < b; every comparison with nan is false
RLess(a, b) == a[2] # 0 /\ b[2] # 0 /\ a[1] * b[2] < b[1] * a[2]

RLeq(a, b) == a[2] # 0 /\ b[2] # 0 /\ a[1] * b[2] <= b[1] * a[2]

RAbs(a) == <<Abs(a[1]), a[2]>>

---------------------------------------------------------------------------
(* moments_orientation, on the line of voxels a volume is known by *)

\* sum of weight(i) * line[i] over the voxels from index i on
RECURSIVE Moment(_, _, _)
Moment(line, order, i) ==
    IF i > Len(line) THEN 0
    ELSE (IF order = 0 THEN 1 ELSE i - 1) * line[i] + Moment(line, order, i + 1)

\* line 355: m000 = moment3(data, [0, 0, 0])
Mass(line) == Moment(line, 0, 1)

\* line 361: T = m001 / m000; nan when the mass is zero
Centroid(line) == RDiv(RInt(Moment(line, 1, 1)), RInt(Mass(line)))

\* a plausible slip: the eigenvectors of a matrix of nan are returned
EigRaisesNever(centre) == FALSE

\* lines 364-375: the central moments about a nan centre are nan, and
\* numpy.linalg.eig raises LinAlgError on a matrix that holds nan
EigRaises(centre) == centre = RNaN

---------------------------------------------------------------------------
(* _itk_registration_: the Continuous Refiner.  It returns the pose of the *)
(* local optimum it reaches from (R_init, T_init), and its metric value.   *)

ItkRegistration(kind, R_init, T_init) ==
    IF kind = "stay"
      THEN [R |-> R_init, T |-> T_init]
      ELSE [R |-> MatMul(R_init, AxAngle2Mat(<<1, 0, 0>>, 1)),
            T |-> VecAdd(T_init, <<1, 0, 0>>)]

---------------------------------------------------------------------------
(* The global dictionary project.settings, as far as process.py writes it. *)

\* the values the entries can have before a call: the progress bar on or
\* off, two settings of the block-wise reconstruction
SettingsSet ==
    { [progress_bar |-> TRUE, bounds |-> <<0, 10>>, block_number |-> 20,
       mode |-> "sequential"],
      [progress_bar |-> FALSE, bounds |-> <<0, 5>>, block_number |-> 10,
       mode |-> "random"] }

\* lines 695-697 of register_astra_geometry
AstraSettings(st) ==
    [st EXCEPT !.bounds = <<0, 5>>, !.block_number = 10, !.mode = "random"]

---------------------------------------------------------------------------
(* The state of an operation that is not running. *)

AstraIdle == astra = [pc |-> "idle", subsamp |-> 1, result |-> "none"]

CalIdle ==
    /\ cal_pc = "idle"
    /\ cal_in = [guess |-> <<>>, centre_of_mass |-> FALSE, axs_hrz |-> <<0, 1>>,
                 img_pixel |-> <<1, 1>>, subscale |-> 0,
                 cost |-> [kind |-> "any", x0 |-> <<0, 1>>]]
    /\ cal_subscale = 0
    /\ cal_guess = <<>>
    /\ cal_levels = <<>>
    /\ cal_flagged = <<>>
    /\ cal_trials = <<>>
    /\ cal_costs = <<>>
    /\ cal_evals = <<>>
    /\ cal_result = "none"
    /\ cal_geom = [caller |-> <<>>, trial |-> <<>>]

FsIdle ==
    /\ fs_pc = "idle"
    /\ fs_in = [ref |-> <<0, 0, 0>>, slave |-> <<0, 0, 0>>, offset |-> <<0, 0>>]
    /\ fs_ii = 0
    /\ fs_shifts = <<>>
    /\ fs_log = <<>>
    /\ fs_result = "none"

TileIdle ==
    /\ FsIdle
    /\ tile_pc = "idle"
    /\ tile_in = [data |-> <<0, 0, 0>>, tot_data |-> <<0, 0, 0>>,
                  geom |-> [det_hrz |-> 0, det_vrt |-> 0, det_pixel |-> 1],
                  tot_geom |-> [det_hrz |-> 0, det_vrt |-> 0, det_pixel |-> 1],
                  base |-> <<>>, fill |-> "all", new |-> <<>>]
    /\ tile_off = <<<<0, 1>>, <<0, 1>>>>
    /\ tile_rows = 0
    /\ tile_tot = <<>>
    /\ tile_w = [base_dist |-> <<>>, new_dist |-> <<>>, norm |-> <<>>]
    /\ tile_result = "none"

---------------------------------------------------------------------------
(* _find_best_flip_ *)

\* a plausible slip: the transpose of Rmov is left out
TrialPoseNoTranspose(in, ii) ==
    LET Rs    == GenerateFlips(in.Rfix)
        Rtot_ == MatMul(MatMul(in.Rmov, in.Rfix), Rs[ii + 1])
        Ttot_ == VecDiv(VecSub(in.Tfix, VecMat(in.Tmov, Rtot_)), sample)
    IN  [R |-> Rtot_, T |-> Ttot_]

\* the trial pose of candidate ii (0-based), before refinement
TrialPose(in, ii) ==
    LET Rs    == GenerateFlips(in.Rfix)
        Rtot_ == MatMul(MatMul(Transpose(in.Rmov), in.Rfix), Rs[ii + 1])
        Ttot_ == VecDiv(VecSub(in.Tfix, VecMat(in.Tmov, Rtot_)), sample)
    IN  [R |-> Rtot_, T |-> Ttot_]

\* line 240: norm(fixed - affine(moving, Rtot_, Ttot_)); it is 0 when the
\* moving volume is the fixed one and the pose is the identity
NormOfDifference(same, pose) ==
    IF same /\ pose = [R |-> Eye3, T |-> Zero3] THEN {0} ELSE Scores

\* the pose that is scored: refined when use_CG is set
ScoredPose(in, kind, ii) ==
    LET p == TrialPose(in, ii)
    IN  IF in.use_CG THEN ItkRegistration(kind, p.R, p.T) ELSE p

\* a plausible slip: the refiner's own metric value is kept as the score
FlipScoreKeepsMetric(use_CG, Litk, Lnorm) == IF use_CG THEN Litk ELSE Lnorm

\* the score L that is compared: line 240 overwrites the refiner's metric
FlipScore(use_CG, Litk, Lnorm) == Lnorm

\* a plausible slip: Lmax >= L, so that a later candidate wins a tie
FlipBetterOnTie(Lmax, L) == ~LGreater(L, Lmax)

\* a plausible slip: no candidate is taken while Lmax is at its start value
FlipBetterAfterFirst(Lmax, L) == Lmax # Inf /\ LGreater(Lmax, L)

\* if Lmax > L
FlipBetter(Lmax, L) == LGreater(Lmax, L)

NumFlips(in) == Len(GenerateFlips(in.Rfix))

\* one pass of the loop over the candidates
FlipStep ==
    /\ flip_pc = "loop"
    /\ flip_ii < NumFlips(flip_in)
    /\ \E Litk \in Scores, Lnorm \in NormOfDifference(flip_in.same,
                                  ScoredPose(flip_in, itk_kind, flip_ii)) :
         LET pose == ScoredPose(flip_in, itk_kind, flip_ii)
             L    == FlipScore(flip_in.use_CG, Litk, Lnorm)
         IN  /\ IF FlipBetter(flip_Lmax, L)
                  THEN flip_best' = pose /\ flip_Lmax' = L
                  ELSE UNCHANGED <<flip_best, flip_Lmax>>
             /\ flip_scores' = IF flip_in.trace THEN Append(flip_scores, Lnorm)
                                                ELSE flip_scores
    /\ flip_ii' = flip_ii + 1
    /\ reg_calls' = IF flip_in.use_CG /\ reg_pc = "flip"
                      THEN Append(reg_calls, "_itk_registration_")
                      ELSE reg_calls
    /\ UNCHANGED <<flip_pc, flip_in, flip_result, itk_kind>>
    /\ UNCHANGED <<reg_pc, reg_in, reg_vol, reg_R, reg_T, reg_pre, reg_out, reg_L2, reg_result>>
    /\ UNCHANGED otherThanReg

\* return Rtot, Ttot * sample (Rtot is unbound when no candidate was taken)
FlipReturn ==
    /\ flip_pc = "loop"
    /\ flip_ii = NumFlips(flip_in)
    /\ IF flip_best = Unbound
         THEN flip_pc' = "error" /\ flip_result' = "UnboundLocalError"
         ELSE /\ flip_pc' = "done"
              /\ flip_result' = [R |-> flip_best.R, T |-> VecScale(flip_best.T, sample)]
    /\ UNCHANGED <<flip_in, flip_ii, flip_Lmax, flip_best, flip_scores, itk_kind>>
    /\ UNCHANGED regVars
    /\ UNCHANGED otherThanReg

FlipIdle ==
    /\ flip_pc = "idle"
    /\ flip_in = [Rfix |-> Eye3, Tfix |-> Zero3, Rmov |-> Eye3, Tmov |-> Zero3,
                  use_CG |-> FALSE, trace |-> FALSE, same |-> FALSE]
    /\ flip_ii = 0
    /\ flip_Lmax = Inf
    /\ flip_best = Unbound
    /\ flip_scores = <<>>
    /\ flip_result = "none"

\* the arguments of a call, with the locals as the function body's first lines leave them
FlipCalled(Rfix, Tfix, Rmov, Tmov, use_CG, trace, same) ==
    /\ flip_pc' = "loop"
    /\ flip_in' = [Rfix |-> Rfix, Tfix |-> Tfix, Rmov |-> Rmov, Tmov |-> Tmov,
                   use_CG |-> use_CG, trace |-> trace, same |-> same]
    /\ flip_ii' = 0
    /\ flip_Lmax' = Inf
    /\ flip_best' = Unbound
    /\ flip_scores' = <<>>
    /\ flip_result' = "none"

RegIdle ==
    /\ AstraIdle
    /\ reg_pc = "idle"
    /\ reg_in = [fshape |-> <<4, 4, 4>>, mshape |-> <<4, 4, 4>>, subsamp |-> 1,
                 use_moments |-> FALSE, use_CG |-> FALSE, use_flips |-> FALSE,
                 threshold |-> FALSE]
    /\ reg_vol = NoVolumes
    /\ reg_calls = <<>>
    /\ reg_R = Eye3
    /\ reg_T = Zero3
    /\ reg_pre = Unbound
    /\ reg_out = Unbound
    /\ reg_L2 = [pre |-> <<>>, post |-> <<>>]
    /\ reg_result = "none"

---------------------------------------------------------------------------
(* register_volumes *)

\* a plausible slip: only the first dimension is compared
ShapeMismatchFirstDim(fshape, mshape) == fshape[1] # mshape[1]

\* if fixed.shape != moving.shape
ShapeMismatch(fshape, mshape) == fshape # mshape

\* the shape of data[::k, ::k, ::k]
SubShape(shape, k) == [i \in Idx3 |-> (shape[i] + k - 1) \div k]

\* line 583: the shape check, before anything else
RegCheckShape ==
    /\ reg_pc = "start"
    /\ IF ShapeMismatch(reg_in.fshape, reg_in.mshape)
         THEN reg_pc' = "error" /\ reg_result' = "IndexError"
         ELSE reg_pc' = "subsample" /\ UNCHANGED reg_result
    /\ UNCHANGED <<reg_in, reg_vol, reg_calls, reg_R, reg_T, reg_pre, reg_out, reg_L2>>
    /\ UNCHANGED <<flipVars, itk_kind>>
    /\ UNCHANGED otherThanReg

\* lines 588-600: sub-sampled copies, the joint threshold, the baseline norm
RegPrepare ==
    /\ reg_pc = "subsample"
    /\ reg_calls' = reg_calls \o <<"subsample">>
                      \o (IF reg_in.threshold THEN <<"threshold_otsu">> ELSE <<>>)
                      \o <<"norm">>
    /\ \E v \in VolumePairs :
         LET f0 == Decimate(v.fixed, reg_in.subsamp)
             m0 == Decimate(v.moving, reg_in.subsamp)
         IN  IF reg_in.threshold
               THEN \E t \in OtsuSet(Decimate(f0, 2) \o Decimate(m0, 2)) :
                      reg_vol' = [given |-> v,
                                  fixed |-> CallerArray(v.fixed, reg_in.subsamp,
                                                        ApplyThreshold(f0, t)),
                                  moving |-> CallerArray(v.moving, reg_in.subsamp,
                                                         ApplyThreshold(m0, t)),
                                  sub_fixed |-> f0, sub_moving |-> m0, threshold |-> <<t>>,
                                  fixed_0 |-> ApplyThreshold(f0, t),
                                  moving_0 |-> ApplyThreshold(m0, t)]
               ELSE reg_vol' = [given |-> v,
                                fixed |-> CallerArray(v.fixed, reg_in.subsamp, f0),
                                moving |-> CallerArray(v.moving, reg_in.subsamp, m0),
                                sub_fixed |-> f0, sub_moving |-> m0, threshold |-> <<>>,
                                fixed_0 |-> f0, moving_0 |-> m0]
    /\ reg_pc' = "moments"
    /\ UNCHANGED <<reg_in, reg_R, reg_T, reg_pre, reg_out, reg_L2, reg_result>>
    /\ UNCHANGED <<flipVars, itk_kind>>
    /\ UNCHANGED otherThanReg

\* a plausible slip: the flag of the final refinement is passed on
FlipRefinesWithCG(in) == in.use_CG

\* line 619: _find_best_flip_(..., use_CG = use_flips)
FlipRefines(in) == in.use_flips

\* lines 602-619: the moments of both volumes, then the call of _find_best_flip_
RegMoments ==
    /\ reg_pc = "moments"
    /\ reg_in.use_moments
    /\ IF EigRaises(Centroid(reg_vol.fixed_0))
         THEN /\ reg_pc' = "error"
              /\ reg_result' = "LinAlgError"
              /\ reg_calls' = reg_calls \o <<"moments_orientation">>
              /\ UNCHANGED flipVars
         ELSE IF EigRaises(Centroid(reg_vol.moving_0))
         THEN /\ reg_pc' = "error"
              /\ reg_result' = "LinAlgError"
              /\ reg_calls' = reg_calls \o <<"moments_orientation", "moments_orientation">>
              /\ UNCHANGED flipVars
         ELSE /\ \E m \in MomentsOf(reg_vol.fixed_0, reg_vol.moving_0) :
                   FlipCalled(m.Rfix, m.Tfix, m.Rmov, m.Tmov, FlipRefines(reg_in), FALSE,
                              reg_vol.fixed_0 = reg_vol.moving_0)
              /\ reg_calls' = reg_calls \o <<"moments_orientation", "moments_orientation",
                                             "_find_best_flip_">>
              /\ reg_pc' = "flip"
              /\ UNCHANGED reg_result
    /\ UNCHANGED <<reg_in, reg_vol, reg_R, reg_T, reg_pre, reg_out, reg_L2>>
    /\ UNCHANGED itk_kind
    /\ UNCHANGED otherThanReg

\* line 619: Rtot, Ttot = _find_best_flip_(...)
RegFlipReturned ==
    /\ reg_pc = "flip"
    /\ flip_pc = "done"
    /\ reg_R' = flip_result.R
    /\ reg_T' = flip_result.T
    /\ reg_pc' = "refine"
    /\ UNCHANGED <<reg_in, reg_vol, reg_calls, reg_pre, reg_out, reg_L2, reg_result>>
    /\ UNCHANGED <<flipVars, itk_kind>>
    /\ UNCHANGED otherThanReg

\* a plausible slip: numpy.zeros([3, 3]) with its diagonal left unset
InitialTransformZeros == [R |-> <<Zero3, Zero3, Zero3>>, T |-> Zero3]

\* lines 626-631: Rtot = zeros with ones on the diagonal, Ttot = zeros
InitialTransform == [R |-> <<<<1, 0, 0>>, <<0, 1, 0>>, <<0, 0, 1>>>>, T |-> <<0, 0, 0>>]

\* lines 624-631: the identity pose
RegIdentity ==
    /\ reg_pc = "moments"
    /\ ~reg_in.use_moments
    /\ reg_R' = InitialTransform.R
    /\ reg_T' = InitialTransform.T
    /\ reg_pc' = "refine"
    /\ UNCHANGED <<reg_in, reg_vol, reg_calls, reg_pre, reg_out, reg_L2, reg_result>>
    /\ UNCHANGED <<flipVars, itk_kind>>
    /\ UNCHANGED otherThanReg

\* a plausible variant: the initial pose is kept, the refiner's pose dropped
RegRefinedKeepsInitial(pre, out) == pre

\* line 651: Ttot, Rtot, L = _itk_registration_(...): the refiner's pose is taken
RegRefined(pre, out) == out

\* lines 634-651: the final refinement
RegRefine ==
    /\ reg_pc = "refine"
    /\ IF reg_in.use_CG
         THEN \E L2 \in Scores :
                LET pre == [R |-> reg_R, T |-> reg_T]
                    out == ItkRegistration(itk_kind, reg_R, reg_T)
                    new == RegRefined(pre, out)
                IN  /\ reg_L2' = [reg_L2 EXCEPT !.pre = <<L2>>]
                    /\ reg_pre' = pre
                    /\ reg_out' = out
                    /\ reg_R' = new.R
                    /\ reg_T' = new.T
                    /\ reg_calls' = reg_calls \o <<"norm", "_itk_registration_">>
         ELSE UNCHANGED <<reg_L2, reg_pre, reg_out, reg_R, reg_T, reg_calls>>
    /\ reg_pc' = "final"
    /\ UNCHANGED <<reg_in, reg_vol, reg_result>>
    /\ UNCHANGED <<flipVars, itk_kind>>
    /\ UNCHANGED otherThanReg

\* a plausible slip: the translation is returned at the sub-sampled scale
RegReturnUnscaled(R, T, subsamp) == [R |-> R, T |-> T]

\* line 660: return Rtot, Ttot * subsamp
RegReturn(R, T, subsamp) == [R |-> R, T |-> VecScale(T, subsamp)]

\* lines 653-660: the norm after registration, and the result
RegFinal ==
    /\ reg_pc = "final"
    /\ \E L2 \in Scores :
         \* the norm of an unchanged pose is the norm measured before
         /\ (reg_L2.pre # <<>> /\ reg_out = reg_pre) => L2 = reg_L2.pre[1]
         /\ reg_L2' = [reg_L2 EXCEPT !.post = <<L2>>]
    /\ reg_calls' = Append(reg_calls, "norm")
    /\ reg_result' = RegReturn(reg_R, reg_T, reg_in.subsamp)
    /\ reg_pc' = "done"
    /\ UNCHANGED <<reg_in, reg_vol, reg_R, reg_T, reg_pre, reg_out>>
    /\ UNCHANGED <<flipVars, itk_kind>>
    /\ UNCHANGED otherThanReg

\* lines 688-700: the settings of the reconstruction are written, both
\* volumes are reconstructed into arrays of one shape, and register_volumes
\* is called with use_moments and use_CG (use_flips and threshold at their
\* defaults)
AstraStart ==
    /\ astra.pc = "start"
    /\ settings' = AstraSettings(settings)
    /\ astra' = [astra EXCEPT !.pc = "call"]
    /\ reg_pc' = "start"
    /\ reg_in' = [fshape |-> <<4, 4, 4>>, mshape |-> <<4, 4, 4>>,
                  subsamp |-> astra.subsamp,
                  use_moments |-> TRUE, use_CG |-> TRUE, use_flips |-> FALSE,
                  threshold |-> TRUE]
    /\ UNCHANGED <<reg_vol, reg_calls, reg_R, reg_T, reg_pre, reg_out, reg_L2, reg_result>>
    /\ UNCHANGED <<flipVars, itk_kind>>
    /\ UNCHANGED <<calVars, tileVars, fsVars>>

\* lines 703-706: R, T of register_volumes are returned; its error passes
AstraReturn ==
    /\ astra.pc = "call"
    /\ reg_pc \in {"done", "error"}
    /\ astra' = [astra EXCEPT !.pc = reg_pc, !.result = reg_result]
    /\ UNCHANGED settings
    /\ UNCHANGED <<regVars, flipVars, itk_kind>>
    /\ UNCHANGED <<calVars, tileVars, fsVars>>

\* a call of register_volumes, or a call of register_astra_geometry
InitReg ==
    /\ FlipIdle
    /\ CalIdle
    /\ TileIdle
    /\ itk_kind \in ItkKinds
    /\ settings \in SettingsSet
    /\ \/ /\ astra = [pc |-> "idle", subsamp |-> 1, result |-> "none"]
          /\ settings.progress_bar
          /\ reg_pc = "start"
          /\ reg_in \in [fshape : ShapeSet, mshape : ShapeSet, subsamp : 1..MaxSubsamp,
                         use_moments : BOOLEAN, use_CG : BOOLEAN, use_flips : BOOLEAN,
                         threshold : BOOLEAN]
          /\ (reg_in.use_CG \/ (reg_in.use_moments /\ reg_in.use_flips))
                \/ itk_kind = "stay"
       \/ /\ \E k \in 1..MaxSubsamp : astra = [pc |-> "start", subsamp |-> k, result |-> "none"]
          /\ reg_pc = "idle"
          /\ reg_in = [fshape |-> <<4, 4, 4>>, mshape |-> <<4, 4, 4>>, subsamp |-> 1,
                       use_moments |-> FALSE, use_CG |-> FALSE, use_flips |-> FALSE,
                       threshold |-> FALSE]
    /\ reg_vol = NoVolumes
    /\ reg_calls = <<>>
    /\ reg_R = Eye3
    /\ reg_T = Zero3
    /\ reg_pre = Unbound
    /\ reg_out = Unbound
    /\ reg_L2 = [pre |-> <<>>, post |-> <<>>]
    /\ reg_result = "none"

NextReg ==
    \/ AstraStart
    \/ AstraReturn
    \/ RegCheckShape
    \/ RegPrepare
    \/ RegMoments
    \/ FlipStep
    \/ FlipReturn
    \/ RegFlipReturned
    \/ RegIdentity
    \/ RegRefine
    \/ RegFinal

SpecReg == InitReg /\ [][NextReg]_vars

\* _find_best_flip_ called on its own, with the per-candidate scores recorded
InitFlip ==
    /\ settings \in {st \in SettingsSet : st.progress_bar}
    /\ RegIdle
    /\ CalIdle
    /\ TileIdle
    /\ itk_kind \in ItkKinds
    /\ flip_pc = "loop"
    /\ \E m \in MomentSet, use_CG \in BOOLEAN :
         flip_in = [Rfix |-> m.Rfix, Tfix |-> m.Tfix, Rmov |-> m.Rmov, Tmov |-> m.Tmov,
                    use_CG |-> use_CG, trace |-> TRUE, same |-> FALSE]
    /\ flip_in.use_CG <=> itk_kind = "move"
    /\ flip_ii = 0
    /\ flip_Lmax = Inf
    /\ flip_best = Unbound
    /\ flip_scores = <<>>
    /\ flip_result = "none"

NextFlip == FlipStep \/ FlipReturn

SpecFlip == InitFlip /\ [][NextFlip]_vars

---------------------------------------------------------------------------
(* Claims about register_volumes and _find_best_flip_ *)

\* C1: register_volumes fails with the shape-mismatch error whenever
\* fixed.shape != moving.shape, for every setting of subsamp, use_moments,
\* use_CG, use_flips and threshold, and no sub-sampling, thresholding, moment
\* estimation or refiner call is made before it fails.
C1_ShapeMismatchFailsFirst ==
    (reg_pc # "idle" /\ reg_in.fshape # reg_in.mshape) =>
        /\ reg_pc \in {"start", "error"}
        /\ reg_pc = "error" <=> reg_result = "IndexError"
        /\ reg_pc = "start" => reg_result = "none"
        /\ reg_calls = <<>>
        /\ reg_vol = NoVolumes
        /\ flip_pc = "idle"
        /\ reg_pre = Unbound /\ reg_out = Unbound

C1_Witness ==
    /\ reg_pc = "error"
    /\ reg_in.fshape # reg_in.mshape
    /\ reg_result = "IndexError"
    /\ reg_in.use_moments /\ reg_in.use_CG /\ reg_in.use_flips /\ reg_in.threshold
    /\ reg_in.subsamp > 1

\* the first index at which a sequence of scores takes its minimum
FirstMinIndex(sc) ==
    CHOOSE k \in 1..Len(sc) :
        /\ \A j \in 1..Len(sc) : sc[k] <= sc[j]
        /\ \A j \in 1..(k - 1) : sc[j] > sc[k]

\* C3: _find_best_flip_ returns the pose of the candidate whose L2 score is
\* the minimum over all candidates, the first such candidate in list order
\* when several share the minimum; the score compared is the L2 norm of
\* fixed minus the resampled moving volume, also with per-candidate
\* refinement.
C3_FlipReturnsFirstMinimum ==
    /\ flip_in.trace => flip_pc # "error"
    /\ (flip_pc = "done" /\ flip_in.trace) =>
        /\ Len(flip_scores) = NumFlips(flip_in)
        /\ LET k    == FirstMinIndex(flip_scores)
               pose == ScoredPose(flip_in, itk_kind, k - 1)
           IN  flip_result = [R |-> pose.R, T |-> VecScale(pose.T, sample)]

C3_Witness ==
    /\ flip_pc = "done"
    /\ flip_in.trace
    /\ flip_in.use_CG
    /\ itk_kind = "move"
    /\ flip_scores[1] = 1 /\ flip_scores[2] = 1
    /\ flip_scores[3] = 0 /\ flip_scores[7] = 0
    /\ flip_result = [R |-> ScoredPose(flip_in, itk_kind, 2).R,
                      T |-> VecScale(ScoredPose(flip_in, itk_kind, 2).T, sample)]
    /\ flip_result.R # ScoredPose(flip_in, itk_kind, 6).R

\* C4 as stated: whenever the Continuous Refiner returns a pose that does not
\* improve on the pose it was started from (its L2 norm is not lower),
\* register_volumes with use_CG returns the pre-refinement pose.
C4_KeepsInitialWhenNotImproved ==
    (reg_pc = "done" /\ reg_in.use_CG /\ reg_L2.post[1] >= reg_L2.pre[1]) =>
        reg_result = [R |-> reg_pre.R, T |-> VecScale(reg_pre.T, reg_in.subsamp)]

\* C4 as amended: register_volumes with use_CG returns the pose the
\* Continuous Refiner returned from the pre-refinement pose (its translation
\* times subsamp), whether or not its L2 norm is lower; the two norms are
\* only reported.
C4_ReturnsRefinerPose ==
    (reg_pc = "done" /\ reg_in.use_CG) =>
        LET out == ItkRegistration(itk_kind, reg_pre.R, reg_pre.T)
        IN  /\ reg_out = out
            /\ reg_result = [R |-> out.R, T |-> VecScale(out.T, reg_in.subsamp)]

C4_Witness ==
    /\ reg_pc = "done"
    /\ reg_in.use_CG
    /\ reg_in.use_moments
    /\ reg_L2.post[1] > reg_L2.pre[1]
    /\ reg_out # reg_pre
    /\ reg_result = [R |-> reg_out.R, T |-> VecScale(reg_out.T, reg_in.subsamp)]
    /\ reg_result.R # reg_pre.R

\* C13: with use_moments false register_volumes starts from the identity
\* pose (the Orientation Disambiguator is not run, and the refiner, if any,
\* is started from identity); with use_moments and use_CG both false it
\* returns the identity rotation and the zero translation, for every pair of
\* equally shaped volumes, every subsamp and every threshold setting.
C13_IdentityWithoutMoments ==
    (reg_pc # "idle" /\ ~reg_in.use_moments) =>
        /\ flip_pc = "idle"
        /\ reg_pc = "refine" => (reg_R = Eye3 /\ reg_T = Zero3)
        /\ (reg_pc \in {"final", "done"} /\ reg_in.use_CG) =>
              reg_pre = [R |-> Eye3, T |-> Zero3]
        /\ (reg_pc \in {"final", "done"} /\ ~reg_in.use_CG) =>
              (reg_R = Eye3 /\ reg_T = Zero3)
        /\ (reg_pc = "done" /\ ~reg_in.use_CG) =>
              reg_result = [R |-> Eye3, T |-> Zero3]
        /\ (reg_in.fshape = reg_in.mshape /\ ~reg_in.use_CG) => reg_pc # "error"

C13_Witness ==
    /\ reg_pc = "done"
    /\ ~reg_in.use_moments /\ ~reg_in.use_CG
    /\ reg_in.threshold
    /\ reg_in.subsamp = 2
    /\ reg_in.use_flips
    /\ reg_result = [R |-> Eye3, T |-> Zero3]

\* how often x occurs in a sequence
RECURSIVE Count(_, _)
Count(sq, x) ==
    IF sq = <<>> THEN 0
    ELSE (IF Head(sq) = x THEN 1 ELSE 0) + Count(Tail(sq), x)

\* C14: in register_volumes the Orientation Disambiguator runs iff
\* use_moments is set, and it invokes the Continuous Refiner once per
\* candidate (10 times) iff use_flips is set; the Continuous Refiner is
\* invoked exactly once more, as the last call before the final norm and
\* from the disambiguated (or identity) pose, iff use_CG is set, and
\* otherwise no final refinement happens.
C14_CallsFollowFlags ==
    reg_pc = "done" =>
        /\ Count(reg_calls, "_find_best_flip_") = (IF reg_in.use_moments THEN 1 ELSE 0)
        /\ Count(reg_calls, "moments_orientation") = (IF reg_in.use_moments THEN 2 ELSE 0)
        /\ Count(reg_calls, "_itk_registration_") =
              (IF reg_in.use_moments /\ reg_in.use_flips THEN 10 ELSE 0)
                + (IF reg_in.use_CG THEN 1 ELSE 0)
        /\ reg_in.use_moments <=> flip_pc = "done"
        /\ reg_in.use_moments => (flip_in.use_CG <=> reg_in.use_flips)
        /\ reg_in.use_CG =>
              /\ reg_calls[Len(reg_calls) - 1] = "_itk_registration_"
              /\ reg_pre = IF reg_in.use_moments THEN flip_result
                           ELSE [R |-> Eye3, T |-> Zero3]
              /\ reg_out # Unbound
        /\ ~reg_in.use_CG =>
              /\ reg_out = Unbound
              /\ reg_pre = Unbound
              /\ reg_R = (IF reg_in.use_moments THEN flip_result.R ELSE Eye3)

C14_Witness ==
    /\ reg_pc = "done"
    /\ reg_in.use_moments /\ reg_in.use_flips /\ reg_in.use_CG
    /\ Count(reg_calls, "_itk_registration_") = 11
    /\ itk_kind = "move"
    /\ reg_pre = flip_result
    /\ reg_out # reg_pre

\* the final pose at the sub-sampled resolution: the refiner's, else the
\* disambiguator's, else the identity
FinalPose ==
    IF reg_in.use_CG THEN reg_out
    ELSE IF reg_in.use_moments THEN flip_result
    ELSE [R |-> Eye3, T |-> Zero3]

\* C15: the translation register_volumes returns is the final translation
\* found at the sub-sampled resolution times subsamp, and the rotation is the
\* final rotation unchanged, for every subsamp >= 1 and all flags.
C15_TranslationRescaled ==
    reg_pc = "done" =>
        /\ reg_result.R = FinalPose.R
        /\ reg_result.T = [i \in 1..3 |-> FinalPose.T[i] * reg_in.subsamp]

C15_Witness ==
    /\ reg_pc = "done"
    /\ reg_in.subsamp = 2
    /\ reg_in.use_CG
    /\ FinalPose.T # Zero3
    /\ reg_result.T # FinalPose.T
    /\ reg_result.T = [i \in 1..3 |-> 2 * reg_out.T[i]]
    /\ reg_result.R = reg_out.R

\* every voxel of the working volume is 0 or not below t, and the voxels of
\* the sub-sampled volume that are not below t are unchanged
Thresholded(work, sub, t) ==
    /\ Len(work) = Len(sub)
    /\ \A i \in 1..Len(work) :
          /\ work[i] = 0 \/ work[i] >= t
          /\ sub[i] >= t => work[i] = sub[i]
          /\ sub[i] < t => work[i] = 0

\* C16: with thresholding enabled register_volumes computes exactly one
\* threshold value, from voxels of both sub-sampled volumes, and applies
\* that same value to both: afterwards every voxel of either working volume
\* is 0 or not below that threshold, and voxels not below it are unchanged.
C16_OneSharedThreshold ==
    reg_vol # NoVolumes =>
        /\ reg_in.threshold <=> Len(reg_vol.threshold) = 1
        /\ Count(reg_calls, "threshold_otsu") = Len(reg_vol.threshold)
        /\ reg_in.threshold =>
              LET t == reg_vol.threshold[1]
                  both == reg_vol.sub_fixed \o reg_vol.sub_moving
              IN  /\ Thresholded(reg_vol.fixed_0, reg_vol.sub_fixed, t)
                  /\ Thresholded(reg_vol.moving_0, reg_vol.sub_moving, t)
                  /\ \E i \in 1..Len(both) : both[i] <= t
                  /\ \E i \in 1..Len(both) : both[i] >= t
        /\ ~reg_in.threshold =>
              /\ reg_vol.fixed_0 = reg_vol.sub_fixed
              /\ reg_vol.moving_0 = reg_vol.sub_moving

C16_Witness ==
    /\ reg_pc = "done"
    /\ reg_in.threshold
    /\ reg_vol.threshold = <<2>>
    /\ reg_vol.sub_fixed = <<0, 1, 2, 3>>
    /\ reg_vol.fixed_0 = <<0, 0, 2, 3>>
    /\ reg_vol.sub_moving = <<3, 2, 1, 0>>
    /\ reg_vol.moving_0 = <<3, 2, 0, 0>>

\* the cross product a x v
Cross(a, v) ==
    <<a[2] * v[3] - a[3] * v[2], a[3] * v[1] - a[1] * v[3], a[1] * v[2] - a[2] * v[1]>>

\* the rotation by 90 degrees about the unit axis a, from what it does to a
\* vector v: it keeps the part along a and turns the rest to a x v
QuarterTurn(a) ==
    [i \in 1..3 |-> [j \in 1..3 |-> Cross(a, Eye3[j])[i] + a[j] * a[i]]]

\* the rotation by n times 90 degrees about a
RECURSIVE Turns(_, _)
Turns(a, n) == IF n = 0 THEN Eye3 ELSE MatMul(QuarterTurn(a), Turns(a, n - 1))

\* C17: the Candidate Set of _generate_flips_ has exactly 10 entries in a
\* fixed order: the identity first, then for each principal axis of the
\* fixed volume (rows 0, 1, 2 of Rfix, in that order) the rotations by 90,
\* 180 and 270 degrees about that axis; the search visits all of them.
\* (Rfix is an argument and never changes: the set is looked at as the
\* search starts.)
C17_TenCandidatesInOrder ==
    /\ flip_ii = 0 =>
       LET Rs == GenerateFlips(flip_in.Rfix)
       IN  /\ Len(Rs) = 10
           /\ Rs[1] = Eye3
           /\ \A ii \in 0..2 : \A jj \in 0..2 :
                 Rs[2 + 3 * ii + jj] = Turns(flip_in.Rfix[ii + 1], jj + 1)
           /\ \A ii \in 0..2 : Turns(flip_in.Rfix[ii + 1], 4) = Eye3
    /\ flip_ii <= 10
    /\ flip_pc = "done" => flip_ii = 10
    /\ (flip_pc = "done" /\ flip_in.trace) => Len(flip_scores) = 10

C17_Witness ==
    /\ flip_pc = "done"
    /\ flip_in.Rfix = RotZ
    /\ flip_in.trace
    /\ flip_ii = 10
    /\ \A k \in 1..9 : flip_scores[k] = 1
    /\ flip_scores[10] = 0
    /\ ~flip_in.use_CG
    /\ flip_result.R = MatMul(MatMul(Transpose(flip_in.Rmov), flip_in.Rfix),
                              Turns(flip_in.Rfix[3], 3))

\* all candidates scored so far have the same score
AllScoresEqual == \A j \in 1..Len(flip_scores) : flip_scores[j] = flip_scores[1]

\* a search in which all candidates score equally has not failed, and when
\* it has returned, it has returned the pose of one of the candidates
FlipDegenerateOutcome ==
    (flip_in.trace /\ AllScoresEqual) =>
        /\ flip_pc \in {"loop", "done"}
        /\ flip_ii <= 10
        /\ flip_pc = "done" =>
              \E k \in 0..9 :
                  flip_result = [R |-> ScoredPose(flip_in, itk_kind, k).R,
                                 T |-> VecScale(ScoredPose(flip_in, itk_kind, k).T, sample)]

\* the steps the search has left
FlipStepsLeft == IF flip_pc = "loop" THEN 11 - flip_ii ELSE 0

\* C18: when all candidates receive the same score, _find_best_flip_ does
\* not crash: it ends normally (every step lowers the number of steps left,
\* and a step is possible until it has returned) and returns the pose of one
\* of the candidates of the Candidate Set.
C18_DegenerateDoesNotCrash ==
    /\ []FlipDegenerateOutcome
    /\ [][FlipStepsLeft' < FlipStepsLeft]_flipVars

C18_Witness ==
    /\ flip_pc = "done"
    /\ flip_in.trace
    /\ Len(flip_scores) = 10
    /\ \A j \in 1..10 : flip_scores[j] = 1
    /\ flip_in.use_CG
    /\ flip_result = [R |-> ScoredPose(flip_in, itk_kind, 0).R,
                      T |-> VecScale(ScoredPose(flip_in, itk_kind, 0).T, sample)]

\* the moving volume is the fixed volume
SelfRegistration == reg_vol # NoVolumes /\ reg_vol.sub_fixed = reg_vol.sub_moving

MomentsAsked ==
    /\ reg_in.use_moments
    /\ reg_vol # NoVolumes
    /\ reg_pc \notin {"start", "subsample", "moments"}

\* one of the working volumes has no mass
SomeMassZero == Mass(reg_vol.fixed_0) = 0 \/ Mass(reg_vol.moving_0) = 0

\* C22: with use_moments set and a working volume (after the threshold) of
\* mass zero, register_volumes ends in an error at moments_orientation: no
\* candidate search is started and no pose is returned; with both masses
\* positive the moments are returned and the search is started.
C22_ZeroMassFails ==
    MomentsAsked =>
        IF SomeMassZero
          THEN /\ reg_pc = "error"
               /\ reg_result = "LinAlgError"
               /\ flip_pc = "idle"
               /\ Count(reg_calls, "_find_best_flip_") = 0
               /\ Count(reg_calls, "_itk_registration_") = 0
               /\ reg_R = Eye3 /\ reg_T = Zero3
          ELSE /\ Count(reg_calls, "_find_best_flip_") = 1
               /\ Count(reg_calls, "moments_orientation") = 2

\* a volume lost all its mass to the threshold, and the call ended in the
\* error of moments_orientation
C22_Witness ==
    /\ MomentsAsked
    /\ reg_vol.threshold # <<>>
    /\ Mass(reg_vol.sub_fixed) > 0
    /\ Mass(reg_vol.fixed_0) = 0
    /\ reg_pc = "error"
    /\ reg_result = "LinAlgError"

\* C27: register_volumes never modifies the caller's fixed and moving
\* arrays: from the moment the working copies exist to the end of the call,
\* by a return or by an error and for every combination of flags, both
\* arrays hold what the caller passed.
C27_InputsUnchanged ==
    reg_vol # NoVolumes =>
        /\ reg_vol.fixed = reg_vol.given.fixed
        /\ reg_vol.moving = reg_vol.given.moving

\* the call returned after the threshold had changed both working copies,
\* and the caller's arrays still hold the voxels the threshold removed
C27_Witness ==
    /\ reg_pc = "done"
    /\ reg_vol.threshold # <<>>
    /\ reg_vol.fixed_0 # reg_vol.sub_fixed
    /\ reg_vol.moving_0 # reg_vol.sub_moving
    /\ Decimate(reg_vol.fixed, reg_in.subsamp) = reg_vol.sub_fixed
    /\ Decimate(reg_vol.moving, reg_in.subsamp) = reg_vol.sub_moving
    /\ reg_vol.fixed = reg_vol.given.fixed
    /\ reg_vol.moving = reg_vol.given.moving

---------------------------------------------------------------------------
(* The Scalar Parameter Calibrator: optimize_rotation_center,              *)
(* optimize_modifier, _modifier_l2cost_, _parabolic_min_                   *)

\* "guess = None"
None == <<>>

\* the number of trial values of a level
NumTrials == 5

\* numpy.linspace(start, stop, num)[k], k = 0 .. num - 1
Linspace(start, stop, num, k) ==
    RAdd(start, RMul(RInt(k), RDiv(RSub(stop, start), RInt(num - 1))))

\* a plausible slip: the search space does not grow with the subscale
TrialValueNoSubscale(guess, img_pix, subscale, k) ==
    Linspace(RSub(guess, img_pix), RAdd(guess, img_pix), NumTrials, k)

\* a plausible slip: the search space is twice as wide
TrialValueTwiceAsWide(guess, img_pix, subscale, k) ==
    Linspace(RSub(guess, RMul(img_pix, RInt(2 * subscale))),
             RAdd(guess, RMul(img_pix, RInt(2 * subscale))), NumTrials, k)

\* line 1165: the search space around the guess
TrialValue(guess, img_pix, subscale, k) ==
    Linspace(RSub(guess, RMul(img_pix, RInt(subscale))),
             RAdd(guess, RMul(img_pix, RInt(subscale))), NumTrials, k)

\* The cost functions _modifier_l2cost_ is given to stand for: an exact
\* parabola with its minimum at x0, the distance from x0, and "any", a cost
\* that returns either of two values at every trial.
CostSet ==
    { [kind |-> "any", x0 |-> RInt(0)],
      [kind |-> "parabola", x0 |-> <<1, 4>>],
      [kind |-> "parabola", x0 |-> RInt(7)],
      [kind |-> "distance", x0 |-> <<-1, 2>>] }

\* a plausible slip: the cost of a trial value depends on something else too
CostValuesNoisy(cost, x) ==
    CASE cost.kind = "parabola" -> {RMul(RSub(x, cost.x0), RSub(x, cost.x0))}
      [] cost.kind = "distance" -> {RAbs(RSub(x, cost.x0)), RAdd(RAbs(RSub(x, cost.x0)), RInt(1))}
      [] OTHER                  -> {RInt(0), RInt(1)}

\* the values _modifier_l2cost_ can return at trial value x
CostValues(cost, x) ==
    CASE cost.kind = "parabola" -> {RMul(RSub(x, cost.x0), RSub(x, cost.x0))}
      [] cost.kind = "distance" -> {RAbs(RSub(x, cost.x0))}
      [] OTHER                  -> {RInt(0), RInt(1)}

\* a plausible slip: the last index of the smallest value
ArgMinLast(values) ==
    CHOOSE i \in 0..(Len(values) - 1) :
        /\ \A j \in 0..(Len(values) - 1) : RLeq(values[i + 1], values[j + 1])
        /\ \A j \in (i + 1)..(Len(values) - 1) : RLess(values[i + 1], values[j + 1])

\* func_values.argmin(): the first index (0-based) of the smallest value
ArgMin(values) ==
    CHOOSE i \in 0..(Len(values) - 1) :
        /\ \A j \in 0..(Len(values) - 1) : RLeq(values[i + 1], values[j + 1])
        /\ \A j \in 0..(i - 1) : RLess(values[i + 1], values[j + 1])

\* a plausible slip: the trial value at the arg-min is returned as it is
ParabolicMinOnGrid(values, index, space) == space[index + 1]

\* _parabolic_min_(values, index, space); sequences are indexed from 1
ParabolicMin(values, index, space) ==
    IF index > 0 /\ index < Len(values) - 1
      THEN LET x0 == space[index]
               x1 == space[index + 1]
               x2 == space[index + 2]
               y0 == values[index]
               y1 == values[index + 1]
               y2 == values[index + 2]
               denom == RMul(RMul(RSub(x0, x1), RSub(x0, x2)), RSub(x1, x2))
               A == RDiv(RAdd(RAdd(RMul(x2, RSub(y1, y0)), RMul(x1, RSub(y0, y2))),
                              RMul(x0, RSub(y2, y1))), denom)
               B == RDiv(RAdd(RAdd(RMul(RMul(x2, x2), RSub(y0, y1)),
                                   RMul(RMul(x1, x1), RSub(y2, y0))),
                              RMul(RMul(x0, x0), RSub(y1, y2))), denom)
           IN  RDiv(RDiv(RNeg(B), RInt(2)), A)
      ELSE space[index + 1]

\* line 1157: the condition under which the ValueError is constructed
SubscaleRejected(subscale) == subscale # 1 /\ (subscale \div 2) * 2 # subscale

\* a plausible slip: the subscale is decremented
NextSubscaleDecrement(subscale) == subscale - 1

\* line 1171: subscale = subscale // 2
NextSubscale(subscale) == subscale \div 2

\* lines 1139-1151: the initial guess
CalStart ==
    /\ cal_pc = "start"
    /\ IF cal_in.guess # None
         THEN cal_guess' = cal_in.guess /\ cal_pc' = "loop" /\ UNCHANGED cal_result
         ELSE IF cal_in.centre_of_mass
                \* centre() calls the array astype() returns: a TypeError
                THEN cal_pc' = "error" /\ cal_result' = "TypeError" /\ UNCHANGED cal_guess
                ELSE cal_guess' = cal_in.axs_hrz /\ cal_pc' = "loop" /\ UNCHANGED cal_result
    /\ UNCHANGED <<cal_in, cal_subscale, cal_levels, cal_flagged, cal_trials, cal_costs,
                   cal_evals>>
    /\ UNCHANGED <<settings, cal_geom>>
    /\ UNCHANGED otherThanCal

\* lines 1154-1165: the loop test, the check of the subscale (whose ValueError
\* is constructed and dropped, not raised), and the trial values of the level
CalLevel ==
    /\ cal_pc = "loop"
    /\ cal_subscale >= 1
    /\ cal_flagged' = IF SubscaleRejected(cal_subscale)
                        THEN Append(cal_flagged, cal_subscale) ELSE cal_flagged
    /\ cal_levels' = Append(cal_levels, [subscale |-> cal_subscale, guess |-> cal_guess,
                                         estimate |-> None])
    /\ cal_trials' = [k \in 1..NumTrials |->
                        TrialValue(cal_guess, cal_in.img_pixel, cal_subscale, k - 1)]
    /\ cal_costs' = <<>>
    /\ cal_evals' = <<>>
    /\ cal_pc' = "eval"
    /\ UNCHANGED <<cal_in, cal_subscale, cal_guess, cal_result>>
    /\ UNCHANGED <<settings, cal_geom>>
    /\ UNCHANGED otherThanCal

\* the caller's geometry, as far as the calibrator reads or writes it
Geometry(in) ==
    [axs_hrz |-> in.axs_hrz, img_pixel |-> in.img_pixel,
     vol_sample |-> <<1, 1, 1>>, proj_sample |-> <<1, 1, 1>>]

\* line 1162: samp = [20, subscale, subscale]
Samp(subscale) == <<20, subscale, subscale>>

\* lines 1087 and 1069-1070: what the reconstruction is given: the trial
\* value under the key, the sampling of volume and projections
TrialGeometry(geom, value, samp) ==
    [geom EXCEPT !.axs_hrz = value,
                 !.vol_sample = <<samp[1], samp[2], samp[3]>>,
                 !.proj_sample = <<samp[1], samp[3], samp[3]>>]

\* a plausible slip: the entries are written into the caller's geometry
CallerAfterTrialShared(geom, value, samp) == TrialGeometry(geom, value, samp)

\* lines 1085 and 1066: geometry_ = geometry.copy(): the entries are written
\* into copies, the caller's geometry keeps its own
CallerAfterTrial(geom, value, samp) == geom

\* lines 1075-1077 of _sample_FDK_: the progress bar is switched off for the
\* reconstruction and switched on after it, whatever it was before
SampleFDK(st) == [[st EXCEPT !.progress_bar = FALSE] EXCEPT !.progress_bar = TRUE]

\* lines 1120-1124: one evaluation of the cost function _modifier_l2cost_,
\* which reconstructs by _sample_FDK_
CalEval ==
    /\ cal_pc = "eval"
    /\ Len(cal_costs) < Len(cal_trials)
    /\ \E c \in CostValues(cal_in.cost, cal_trials[Len(cal_costs) + 1]) :
         cal_costs' = Append(cal_costs, c)
    /\ cal_evals' = Append(cal_evals, cal_trials[Len(cal_costs) + 1])
    /\ UNCHANGED <<cal_pc, cal_in, cal_subscale, cal_guess, cal_levels, cal_flagged,
                   cal_trials, cal_result>>
    /\ LET value == cal_trials[Len(cal_costs) + 1]
           samp  == Samp(cal_subscale)
       IN  cal_geom' = [caller |-> CallerAfterTrial(cal_geom.caller, value, samp),
                        trial  |-> TrialGeometry(cal_geom.caller, value, samp)]
    /\ settings' = SampleFDK(settings)
    /\ UNCHANGED otherThanCal

\* lines 1126-1130 and 1167-1171: the arg-min, its parabolic refinement, the
\* halving of the subscale
CalLevelEnd ==
    /\ cal_pc = "eval"
    /\ Len(cal_costs) = Len(cal_trials)
    /\ cal_guess' = ParabolicMin(cal_costs, ArgMin(cal_costs), cal_trials)
    /\ cal_levels' = [cal_levels EXCEPT ![Len(cal_levels)].estimate = cal_guess']
    /\ cal_subscale' = NextSubscale(cal_subscale)
    /\ cal_pc' = "loop"
    /\ UNCHANGED <<cal_in, cal_flagged, cal_trials, cal_costs, cal_evals, cal_result>>
    /\ UNCHANGED <<settings, cal_geom>>
    /\ UNCHANGED otherThanCal

\* line 1173: return guess
CalReturn ==
    /\ cal_pc = "loop"
    /\ cal_subscale < 1
    /\ cal_result' = cal_guess
    /\ cal_pc' = "done"
    /\ UNCHANGED <<cal_in, cal_subscale, cal_guess, cal_levels, cal_flagged,
                   cal_trials, cal_costs, cal_evals>>
    /\ UNCHANGED <<settings, cal_geom>>
    /\ UNCHANGED otherThanCal

InitCal ==
    /\ settings \in SettingsSet
    /\ RegIdle
    /\ FlipIdle
    /\ TileIdle
    /\ itk_kind = "stay"
    /\ cal_pc = "start"
    /\ cal_in \in [guess : {None, RInt(0), <<1, 2>>}, centre_of_mass : BOOLEAN,
                   axs_hrz : {RInt(1)}, img_pixel : {RInt(1), <<1, 2>>},
                   subscale : 0..MaxSubscale, cost : CostSet]
    /\ cal_subscale = cal_in.subscale
    /\ cal_guess = None
    /\ cal_levels = <<>>
    /\ cal_flagged = <<>>
    /\ cal_trials = <<>>
    /\ cal_costs = <<>>
    /\ cal_evals = <<>>
    /\ cal_result = "none"
    /\ cal_geom = [caller |-> Geometry(cal_in), trial |-> <<>>]

NextCal ==
    \/ CalStart
    \/ CalLevel
    \/ CalEval
    \/ CalLevelEnd
    \/ CalReturn

SpecCal == InitCal /\ [][NextCal]_vars

---------------------------------------------------------------------------
(* The Robust Shift Estimator: _find_shift_                                *)
(* An image is known by its nonzero support, a set of pixels <<row, col>>; *)
(* a shift sample is a pair <<dy, dx>> in units of 1/UpSample pixel.       *)

\* line 1286: every SliceStep-th slice is looked at
SliceStep == 10

\* line 1319: the up-sampling factor of register_translation
UpSample == 10

\* the shifts register_translation can report for one slice pair
SampleSet == {<<0, 0>>, <<20, 20>>, <<10, 0>>, <<30, 0>>, <<5, 0>>, <<0, -20>>}

Pixels(h, w) == (0..(h - 1)) \X (0..(w - 1))

\* the nonzero support of an image (a function from pixels to values)
Support(img) == {px \in DOMAIN img : img[px] # RInt(0)}

\* an image of zeros
ZeroImage(h, w) == [px \in Pixels(h, w) |-> RInt(0)]

\* the content one slice of the mosaic is drawn from: nothing, a block in
\* the two leftmost columns, the whole frame
BaseContents(h, w) ==
    { ZeroImage(h, w),
      [px \in Pixels(h, w) |-> IF px[2] < 2 THEN RInt(4 + px[1]) ELSE RInt(0)],
      [px \in Pixels(h, w) |-> RInt(4 + px[1])] }

\* the content of one slice of the tile: no zero
TileContent(h, w) == [px \in Pixels(h, w) |-> RInt(2 * (px[2] + 1))]

\* tot_data[:, ii, :] before the call: the content fills every slice, or
\* only the slices below SliceStep
MosaicSlice(in, ii) ==
    IF in.fill = "all" \/ ii < SliceStep THEN in.base
    ELSE ZeroImage(in.tot_data[1], in.tot_data[3])

\* data[:, ii, :]
TileSlice(in, ii) == in.new

\* a plausible slip: the slices are compared without the test of their sizes
FootprintOutsideNever(offset, slv, ref) == FALSE

\* a plausible slip: the test for a negative offset is left out
FootprintOutsideNoNegative(offset, slv, ref) ==
    \/ offset[2] + slv[2] > ref[2]
    \/ offset[1] + slv[1] > ref[1]

\* line 1295: the slave slice at the offset does not fit the reference slice;
\* slv and ref are the shapes <<rows, cols>> of the two slices
FootprintOutside(offset, slv, ref) ==
    \/ (IF offset[1] < offset[2] THEN offset[1] ELSE offset[2]) < 0
    \/ offset[2] + slv[2] > ref[2]
    \/ offset[1] + slv[1] > ref[1]

\* line 1299: im_ref[offset[0]:offset[0] + h, offset[1]:offset[1] + w]
Crop(support, offset, h, w) ==
    { <<px[1] - offset[1], px[2] - offset[2]>> :
        px \in { q \in support : /\ q[1] >= offset[1] /\ q[1] < offset[1] + h
                                 /\ q[2] >= offset[2] /\ q[2] < offset[2] + w } }

\* line 1302: no_zero = (im_ref * im_slv) != 0
NoZero(im_ref, im_slv) == im_ref \cap im_slv

\* a plausible slip: a slice pair is sampled whatever its common support
TakesSampleAlways(count) == count >= 0

\* line 1304: if no_zero.sum() > 0
TakesSample(count) == count > 0

\* the image shape <<rows, cols>> of a slice along dim = 1 of a stack
SliceShape(shape) == <<shape[1], shape[3]>>

\* sums over a sequence of samples
RECURSIVE SumVec(_)
SumVec(sq) ==
    IF sq = <<>> THEN <<0, 0>>
    ELSE LET r == SumVec(Tail(sq))
         IN  <<Head(sq)[1] + r[1], Head(sq)[2] + r[2]>>

Norm2(v) == v[1] * v[1] + v[2] * v[2]

RECURSIVE SumNorm2(_)
SumNorm2(sq) == IF sq = <<>> THEN 0 ELSE Norm2(Head(sq)) + SumNorm2(Tail(sq))

\* a plausible slip: a sample at exactly the mean's magnitude is kept
KeepSampleOnEqual(shift, sum, n) ==
    Norm2(<<n * shift[1] - sum[1], n * shift[2] - sum[2]>>) <= Norm2(sum)

\* lines 1330-1337: error < mean, for the mean sum / n of n samples: the
\* distance of the sample from the mean is below the mean's magnitude
\* (both sides times n, squared)
KeepSample(shift, sum, n) ==
    Norm2(<<n * shift[1] - sum[1], n * shift[2] - sum[2]>>) < Norm2(sum)

\* shifts[error < mean]
Prune(shifts) ==
    LET sum == SumVec(shifts)
        n   == Len(shifts)
    IN  SelectSeq(shifts, LAMBDA sm : KeepSample(sm, sum, n))

\* a plausible slip: the std is compared with the whole shift estimate
UnreliableWholeNorm(sum, sumsq, n) ==
    \/ (n * sumsq - Norm2(sum)) > Norm2(sum)
    \/ Norm2(sum) < UpSample * UpSample * n * n

\* line 1355: (std_norm > shift_norm / 2) | (shift_norm < 1), for n samples
\* with sum "sum" and sum of squared norms "sumsq": shift_norm^2 is
\* |sum|^2 / n^2 and std_norm^2 is sumsq / n - |sum|^2 / n^2 (both sides
\* squared, times n^2; one pixel is UpSample units)
Unreliable(sum, sumsq, n) ==
    \/ 4 * (n * sumsq - Norm2(sum)) > Norm2(sum)
    \/ Norm2(sum) < UpSample * UpSample * n * n

\* the shift [0, 0], in pixels
ZeroShift == <<RInt(0), RInt(0)>>

\* numpy.mean(shifts, 0), in pixels
MeanShift(shifts) ==
    LET sum == SumVec(shifts)
    IN  <<RNorm(sum[1], UpSample * Len(shifts)), RNorm(sum[2], UpSample * Len(shifts))>>

\* the start of a call of _find_shift_(data_ref, data_slave, offset)
FsCalled(ref, slave, offset) ==
    /\ fs_pc' = "loop"
    /\ fs_in' = [ref |-> ref, slave |-> slave, offset |-> offset]
    /\ fs_ii' = 0
    /\ fs_shifts' = <<>>
    /\ fs_log' = <<>>
    /\ fs_result' = "none"

\* lines 1286-1321: one slice pair; data_ref is the mosaic tot_data and
\* data_slave the tile data of the calling append_tile
FsSlice ==
    /\ fs_pc = "loop"
    /\ fs_ii < fs_in.slave[2]
    /\ LET slv == SliceShape(fs_in.slave)
           ref == SliceShape(fs_in.ref)
       IN  IF FootprintOutside(fs_in.offset, slv, ref)
             THEN /\ fs_pc' = "error"
                  /\ fs_result' = "Exception"
                  /\ UNCHANGED <<fs_ii, fs_shifts, fs_log>>
             ELSE /\ \E sm \in SampleSet :
                        LET sref   == Support(tile_tot[fs_ii + 1])
                            sslv   == Support(TileSlice(tile_in, fs_ii))
                            im_ref == Crop(sref, fs_in.offset, slv[1], slv[2])
                            count  == Cardinality(NoZero(im_ref, sslv))
                        IN  IF TakesSample(count)
                              THEN /\ fs_shifts' = Append(fs_shifts, sm)
                                   /\ fs_log' = Append(fs_log,
                                         [ii |-> fs_ii, common |-> count # 0, shift |-> <<sm>>])
                              ELSE /\ fs_shifts' = fs_shifts
                                   /\ fs_log' = Append(fs_log,
                                         [ii |-> fs_ii, common |-> count # 0, shift |-> <<>>])
                  /\ fs_ii' = fs_ii + SliceStep
                  /\ UNCHANGED <<fs_pc, fs_result>>
    /\ UNCHANGED fs_in
    /\ UNCHANGED tileVars
    /\ UNCHANGED otherThanTile

\* lines 1323-1359: the consensus of the samples
FsConsensus ==
    /\ fs_pc = "loop"
    /\ fs_ii >= fs_in.slave[2]
    /\ IF fs_shifts = <<>>
         THEN fs_result' = ZeroShift /\ UNCHANGED fs_shifts
         ELSE LET kept == Prune(fs_shifts)
              IN  /\ fs_shifts' = kept
                  /\ fs_result' =
                       IF kept = <<>> THEN ZeroShift
                       ELSE IF Unreliable(SumVec(kept), SumNorm2(kept), Len(kept))
                              THEN ZeroShift
                              ELSE MeanShift(kept)
    /\ fs_pc' = "done"
    /\ UNCHANGED <<fs_in, fs_ii, fs_log>>
    /\ UNCHANGED tileVars
    /\ UNCHANGED otherThanTile

---------------------------------------------------------------------------
(* The Mosaic Accumulator: append_tile *)

\* numpy.round(n / d) for d > 0: halves go to the even neighbour
RoundHalfEven(n, d) ==
    LET q == n \div d
        r == n - q * d
    IN  IF 2 * r < d THEN q
        ELSE IF 2 * r > d THEN q + 1
        ELSE IF q % 2 = 0 THEN q ELSE q + 1

\* array.detector_size(shape, geometry): det_pixel * shape
DetectorSize(shape, geom) == <<geom.det_pixel * shape[1], geom.det_pixel * shape[2]>>

\* lines 1399-1414: the nominal offset [y_offset, x_offset] in pixels
NominalOffset(in) ==
    LET total_size == DetectorSize(SliceShape(in.tot_data), in.tot_geom)
        det_size   == DetectorSize(SliceShape(in.data), in.geom)
        x == 2 * (in.geom.det_hrz - in.tot_geom.det_hrz) + total_size[2] - det_size[2]
        y == 2 * (in.geom.det_vrt - in.tot_geom.det_vrt) + total_size[1] - det_size[1]
    IN  <<RoundHalfEven(y, 2 * in.geom.det_pixel), RoundHalfEven(x, 2 * in.geom.det_pixel)>>

\* the integer below a rational
Floor(a) == a[1] \div a[2]

\* the pixel <<r, c>> of an image of h rows and w columns, 0 outside
PixelOrZero(img, h, w, r, c) ==
    IF r \in 0..(h - 1) /\ c \in 0..(w - 1) THEN img[<<r, c>>] ELSE RInt(0)

\* the linear interpolation (order = 1) of an image at the coordinates y, x;
\* in mode 'constant' a coordinate outside the image gives cval = 0
Interpolate(img, h, w, y, x) ==
    IF \/ RLess(y, RInt(0)) \/ RLess(RInt(h - 1), y)
       \/ RLess(x, RInt(0)) \/ RLess(RInt(w - 1), x)
      THEN RInt(0)
      ELSE LET y0 == Floor(y)
               x0 == Floor(x)
               fy == RSub(y, RInt(y0))
               fx == RSub(x, RInt(x0))
               gy == RSub(RInt(1), fy)
               gx == RSub(RInt(1), fx)
           IN  RAdd(RAdd(RMul(RMul(gy, gx), PixelOrZero(img, h, w, y0, x0)),
                         RMul(RMul(gy, fx), PixelOrZero(img, h, w, y0, x0 + 1))),
                    RAdd(RMul(RMul(fy, gx), PixelOrZero(img, h, w, y0 + 1, x0)),
                         RMul(RMul(fy, fx), PixelOrZero(img, h, w, y0 + 1, x0 + 1))))

\* interp.shift(img, [y_offset, x_offset], order = 1): the output at a pixel
\* is the input at the pixel minus the shift
ShiftImage(img, h, w, off) ==
    [px \in Pixels(h, w) |->
        Interpolate(img, h, w, RSub(RInt(px[1]), off[1]), RSub(RInt(px[2]), off[2]))]

\* line 1453: numpy.pad(img, ((0, pad_y), (0, pad_x))) of an image of h rows
\* and w columns to th rows and tw columns
Pad(img, h, w, th, tw) ==
    [px \in Pixels(th, tw) |-> IF px \in Pixels(h, w) THEN img[px] ELSE RInt(0)]

\* line 1427: base0 = (tot_data[:, ::100, :].mean(1)) != 0; the mean of the
\* slices 0, 100, ... is not zero where their sum is not zero
RECURSIVE SumSlices(_, _, _)
SumSlices(tot, ii, img) ==
    IF ii >= Len(tot) THEN img
    ELSE SumSlices(tot, ii + 100, [px \in DOMAIN img |-> RAdd(img[px], tot[ii + 1][px])])

Base0(tot, h, w) == Support(SumSlices(tot, 0, ZeroImage(h, w)))

\* lines 1429-1432: the boolean footprint of the tile, shifted; the shifted
\* value is cast to bool by truncation, so a pixel is set where the
\* interpolated value reaches 1
New0(h, w, th, tw, off) ==
    LET block   == [px \in Pixels(th, tw) |->
                       IF px \in Pixels(h, w) THEN RInt(1) ELSE RInt(0)]
        shifted == ShiftImage(block, th, tw, off)
    IN  {px \in Pixels(th, tw) : RLeq(RInt(1), shifted[px])}

\* distance_transform_bf of a mask with no background pixel anywhere: the
\* largest distance the transform knows, which absorbs every finite weight
\* (a stand-in far above every distance in a frame)
NoBackground == 1000000

\* the integer whose square is d2
ISqrt(d2) == CHOOSE k \in 0..d2 : k * k = d2

\* the least of a nonempty set of integers
Least(S) == CHOOSE m \in S : \A n \in S : m <= n

\* lines 1435-1436: ndimage.distance_transform_bf(mask): at a pixel of the
\* mask, the euclidean distance to the nearest pixel of the frame outside
\* the mask; 0 outside the mask
DistanceTransform(mask, h, w) ==
    LET background == Pixels(h, w) \ mask
    IN  [px \in Pixels(h, w) |->
            IF px \notin mask THEN 0
            ELSE IF background = {} THEN NoBackground
            ELSE ISqrt(Least({ (px[1] - q[1]) * (px[1] - q[1])
                                 + (px[2] - q[2]) * (px[2] - q[2]) : q \in background })) ]

\* a plausible slip: the edge of a footprint keeps its weight
TrimEdgeKept(d) == d

\* lines 1439-1443: dist -= 1; dist *= dist > 0
TrimEdge(d) ==
    IF d = NoBackground THEN NoBackground
    ELSE IF d - 1 > 0 THEN d - 1 ELSE 0

\* a plausible slip: a zero normalizer is left as it is
NormalizerSum(bd, nd) ==
    IF bd = NoBackground \/ nd = NoBackground THEN NoBackground ELSE bd + nd

\* lines 1444-1445: norm = base_dist + new_dist; norm[norm == 0] = numpy.inf
Normalizer(bd, nd) ==
    IF bd = NoBackground \/ nd = NoBackground THEN NoBackground
    ELSE IF bd + nd = 0 THEN Inf
    ELSE bd + nd

\* lines 1435-1445: the two weight maps and the normalizer
Weights(base0, new0, h, w) ==
    LET base_dist == [px \in Pixels(h, w) |-> TrimEdge(DistanceTransform(base0, h, w)[px])]
        new_dist  == [px \in Pixels(h, w) |-> TrimEdge(DistanceTransform(new0, h, w)[px])]
    IN  [base_dist |-> base_dist,
         new_dist  |-> new_dist,
         norm      |-> [px \in Pixels(h, w) |-> Normalizer(base_dist[px], new_dist[px])]]

\* a plausible slip: a voxel without weight keeps the content of the mosaic
BlendKeepsBase(bd, nd, norm, base, new) ==
    IF norm = Inf THEN base
    ELSE IF bd = NoBackground /\ nd = NoBackground THEN RDiv(RAdd(base, new), RInt(2))
    ELSE IF bd = NoBackground THEN base
    ELSE IF nd = NoBackground THEN new
    ELSE RDiv(RAdd(RMul(RInt(bd), base), RMul(RInt(nd), new)), RInt(norm))

\* line 1465: ((base_dist * base) + (new_dist * new)) / norm at one pixel.
\* A finite sum over an infinite norm is 0; a weight of NoBackground
\* absorbs a finite one in floating point.
Blend(bd, nd, norm, base, new) ==
    IF norm = Inf THEN RInt(0)
    ELSE IF bd = NoBackground /\ nd = NoBackground THEN RDiv(RAdd(base, new), RInt(2))
    ELSE IF bd = NoBackground THEN base
    ELSE IF nd = NoBackground THEN new
    ELSE RDiv(RAdd(RMul(RInt(bd), base), RMul(RInt(nd), new)), RInt(norm))

\* lines 1453-1459: the slice ii of the tile, padded to the frame and
\* shifted when an offset is not zero
NewSlice(in, ii, off) ==
    LET new == Pad(TileSlice(in, ii), in.data[1], in.data[3], in.tot_data[1], in.tot_data[3])
    IN  IF off[2] # RInt(0) \/ off[1] # RInt(0)
          THEN ShiftImage(new, in.tot_data[1], in.tot_data[3], off)
          ELSE new

\* a plausible slip: the detector rows are compared, not the projections
CountMismatchRows(data, tot_data) == tot_data[1] # data[1]

\* line 1396: tot_data.shape[1] != data.shape[1]
CountMismatch(data, tot_data) == tot_data[2] # data[2]

\* lines 1392-1421: the check of the projection counts, the nominal offset,
\* the call of _find_shift_
TileStart ==
    /\ tile_pc = "start"
    /\ IF CountMismatch(tile_in.data, tile_in.tot_data)
         THEN /\ tile_pc' = "error"
              /\ tile_result' = "Exception"
              /\ UNCHANGED <<tile_off, fsVars>>
         ELSE /\ tile_pc' = "shift"
              /\ tile_off' = <<RInt(NominalOffset(tile_in)[1]), RInt(NominalOffset(tile_in)[2])>>
              /\ FsCalled(tile_in.tot_data, tile_in.data, NominalOffset(tile_in))
              /\ UNCHANGED tile_result
    /\ UNCHANGED <<tile_in, tile_rows, tile_tot, tile_w>>
    /\ UNCHANGED otherThanTile

\* lines 1421-1447: the residual shift is added to the offset (the weights
\* of the blending are computed here); the locals of _find_shift_ are gone
TileShiftReturned ==
    /\ tile_pc = "shift"
    /\ fs_pc = "done"
    /\ tile_off' = <<RAdd(tile_off[1], fs_result[1]), RAdd(tile_off[2], fs_result[2])>>
    /\ tile_w' = Weights(Base0(tile_tot, tile_in.tot_data[1], tile_in.tot_data[3]),
                         New0(tile_in.data[1], tile_in.data[3],
                              tile_in.tot_data[1], tile_in.tot_data[3], tile_off'),
                         tile_in.tot_data[1], tile_in.tot_data[3])
    /\ tile_pc' = "blend"
    /\ fs_pc' = "idle"
    /\ fs_in' = [ref |-> <<0, 0, 0>>, slave |-> <<0, 0, 0>>, offset |-> <<0, 0>>]
    /\ fs_ii' = 0
    /\ fs_shifts' = <<>>
    /\ fs_log' = <<>>
    /\ fs_result' = "none"
    /\ UNCHANGED <<tile_in, tile_rows, tile_result, tile_tot>>
    /\ UNCHANGED otherThanTile

\* the exception of _find_shift_ passes through append_tile
TileShiftRaised ==
    /\ tile_pc = "shift"
    /\ fs_pc = "error"
    /\ tile_pc' = "error"
    /\ tile_result' = fs_result
    /\ UNCHANGED <<tile_in, tile_off, tile_rows, tile_tot, tile_w>>
    /\ UNCHANGED fsVars
    /\ UNCHANGED otherThanTile

\* lines 1450-1465: one row of the mosaic is replaced by the blend
TileRow ==
    /\ tile_pc = "blend"
    /\ tile_rows < tile_in.tot_data[2]
    /\ LET base == tile_tot[tile_rows + 1]
           new  == NewSlice(tile_in, tile_rows, tile_off)
       IN  tile_tot' = [tile_tot EXCEPT ![tile_rows + 1] =
                          [px \in DOMAIN base |->
                              Blend(tile_w.base_dist[px], tile_w.new_dist[px],
                                    tile_w.norm[px],
                                    base[px], new[px])]]
    /\ tile_rows' = tile_rows + 1
    /\ UNCHANGED <<tile_pc, tile_in, tile_off, tile_result, tile_w>>
    /\ UNCHANGED fsVars
    /\ UNCHANGED otherThanTile

\* the end of the loop over the rows
TileReturn ==
    /\ tile_pc = "blend"
    /\ tile_rows >= tile_in.tot_data[2]
    /\ tile_pc' = "done"
    /\ tile_result' = "None"
    /\ UNCHANGED <<tile_in, tile_off, tile_rows, tile_tot, tile_w>>
    /\ UNCHANGED fsVars
    /\ UNCHANGED otherThanTile

\* the projection counts: the ends of the ranges that give 1, 2, ... slices
ProjCounts ==
    {1} \cup {SliceStep * k : k \in 1..(MaxSlices - 1)}
        \cup {SliceStep * k + 1 : k \in 1..(MaxSlices - 1)}

\* detector positions and pixel sizes
GeomSet == [det_hrz : {-1, 0, 1}, det_vrt : {0, 1}, det_pixel : {1}]

InitTile ==
    /\ settings \in {st \in SettingsSet : st.progress_bar}
    /\ RegIdle
    /\ FlipIdle
    /\ CalIdle
    /\ itk_kind = "stay"
    /\ FsIdle
    /\ tile_pc = "start"
    /\ \E n \in ProjCounts, nt \in ProjCounts, hw \in {<<2, 2>>, <<2, 3>>},
          thw \in {<<2, 3>>, <<3, 3>>}, g \in GeomSet, fill \in {"all", "first"} :
         \E base \in BaseContents(thw[1], thw[2]) :
             /\ tile_in = [data |-> <<hw[1], n, hw[2]>>, tot_data |-> <<thw[1], nt, thw[2]>>,
                           geom |-> g,
                           tot_geom |-> [det_hrz |-> 0, det_vrt |-> 0, det_pixel |-> 1],
                           base |-> base, fill |-> fill,
                           new |-> TileContent(hw[1], hw[2])]
             /\ tile_tot = [ii \in 1..nt |-> MosaicSlice(tile_in, ii - 1)]
    /\ tile_w = [base_dist |-> <<>>, new_dist |-> <<>>, norm |-> <<>>]
    /\ tile_off = ZeroShift
    /\ tile_rows = 0
    /\ tile_result = "none"

NextTile ==
    \/ TileStart
    \/ FsSlice
    \/ FsConsensus
    \/ TileShiftReturned
    \/ TileShiftRaised
    \/ TileRow
    \/ TileReturn

SpecTile == InitTile /\ [][NextTile]_vars

---------------------------------------------------------------------------
(* Claims about the shift estimator and the mosaic accumulator *)

\* the slave slice at the nominal offset lies inside the reference slice
FsFits ==
    /\ fs_in.offset[1] >= 0
    /\ fs_in.offset[2] >= 0
    /\ fs_in.offset[1] + fs_in.slave[1] <= fs_in.ref[1]
    /\ fs_in.offset[2] + fs_in.slave[3] <= fs_in.ref[3]

\* a call of _find_shift_ whose footprint does not fit has done nothing yet
\* or has failed
FsUnfitOutcome ==
    (fs_pc # "idle" /\ ~FsFits) =>
        /\ fs_pc \in {"loop", "error"}
        /\ fs_ii = 0
        /\ fs_shifts = <<>>
        /\ fs_log = <<>>
        /\ fs_result \in {"none", "Exception"}
        /\ fs_pc = "error" <=> fs_result = "Exception"
        /\ tile_rows = 0
        /\ tile_pc \in {"shift", "error"}

\* C5: whenever the slave slice placed at the nominal offset does not fit
\* inside the reference slice (an offset component is negative, or offset
\* plus slave extent exceeds the reference extent on an image axis),
\* _find_shift_ fails with the out-of-bounds exception and returns no shift:
\* such a call never collects a sample or sets a shift, its only step is the
\* failure, and the failure happens for no call that fits.
C5_OutOfBoundsFails ==
    /\ []FsUnfitOutcome
    /\ [](fs_pc = "error" => ~FsFits)
    /\ [][(fs_pc = "loop" /\ ~FsFits) => (fs_pc' = "error" /\ fs_result' = "Exception")]_fsVars

C5_Witness ==
    /\ fs_pc = "error"
    /\ fs_result = "Exception"
    /\ fs_in.offset[2] < 0
    /\ fs_in.offset[1] >= 0
    /\ fs_in.offset[1] + fs_in.slave[1] <= fs_in.ref[1]
    /\ fs_in.offset[2] + fs_in.slave[3] <= fs_in.ref[3]
    /\ tile_pc = "error"

\* C6: whenever the tile and the mosaic differ in their count of
\* projections (data.shape[1] # tot_data.shape[1]), whatever the two
\* geometries, append_tile fails with the size-mismatch exception: it never
\* calls _find_shift_, writes no row, and does not return.
C6_SizeMismatchFails ==
    (tile_pc # "idle" /\ tile_in.data[2] # tile_in.tot_data[2]) =>
        /\ tile_pc \in {"start", "error"}
        /\ tile_pc = "error" <=> tile_result = "Exception"
        /\ tile_result \in {"none", "Exception"}
        /\ fs_pc = "idle"
        /\ tile_rows = 0

C6_Witness ==
    /\ tile_pc = "error"
    /\ tile_result = "Exception"
    /\ tile_in.data[2] # tile_in.tot_data[2]
    /\ tile_in.data[1] = tile_in.tot_data[1]
    /\ fs_pc = "idle"

\* the shift samples collected over the slices, in order
RECURSIVE Collected(_)
Collected(log) ==
    IF log = <<>> THEN <<>> ELSE Head(log).shift \o Collected(Tail(log))

\* n^2 times the variance (std_norm^2) of n samples
ScaledVariance(shifts) == Len(shifts) * SumNorm2(shifts) - Norm2(SumVec(shifts))

\* n^2 times the squared magnitude of the mean, and of one pixel
ScaledMagnitude(shifts) == Norm2(SumVec(shifts))
ScaledPixel(shifts) == UpSample * UpSample * Len(shifts) * Len(shifts)

\* C7: every shift _find_shift_ returns is the zero shift or the mean of
\* the surviving samples with magnitude at least 1 pixel and std-to-mean
\* ratio at most 0.5 (4 var <= |mean|^2); it is the zero shift whenever no
\* sample survives, the ratio exceeds 0.5 or the magnitude is below 1 pixel.
C7_ShiftZeroOrReliable ==
    fs_pc = "done" =>
        /\ \/ fs_result = ZeroShift
           \/ /\ fs_shifts # <<>>
              /\ fs_result = MeanShift(fs_shifts)
              /\ ScaledMagnitude(fs_shifts) >= ScaledPixel(fs_shifts)
              /\ 4 * ScaledVariance(fs_shifts) <= ScaledMagnitude(fs_shifts)
        /\ ( \/ fs_shifts = <<>>
             \/ 4 * ScaledVariance(fs_shifts) > ScaledMagnitude(fs_shifts)
             \/ ScaledMagnitude(fs_shifts) < ScaledPixel(fs_shifts) )
           => fs_result = ZeroShift

C7_Witness ==
    /\ fs_pc = "done"
    /\ fs_result # ZeroShift
    /\ Len(fs_shifts) >= 2
    /\ ScaledVariance(fs_shifts) > 0
    /\ fs_result = MeanShift(fs_shifts)

\* n^2 times the squared distance of a sample from the mean of the samples
ScaledDistance(shift, shifts) ==
    Norm2(<<Len(shifts) * shift[1] - SumVec(shifts)[1],
            Len(shifts) * shift[2] - SumVec(shifts)[2]>>)

\* C8 as stated: the filter discards a sample exactly when its distance from
\* the mean of the collected samples exceeds the mean's magnitude, so the
\* survivors are the samples at a distance of at most that magnitude.
C8_SurvivorsAtMostMean ==
    (fs_pc = "done" /\ Collected(fs_log) # <<>>) =>
        fs_shifts = SelectSeq(Collected(fs_log),
            LAMBDA sm : ScaledDistance(sm, Collected(fs_log))
                            <= ScaledMagnitude(Collected(fs_log)))

\* C8: the filter keeps a sample exactly when its distance from the mean of
\* the collected samples is strictly below the mean's magnitude (a sample at
\* exactly that distance is discarded), and the shift returned is computed
\* from the survivors only.
C8_SurvivorsBelowMean ==
    (fs_pc = "done" /\ Collected(fs_log) # <<>>) =>
        /\ fs_shifts = SelectSeq(Collected(fs_log),
              LAMBDA sm : ScaledDistance(sm, Collected(fs_log))
                              < ScaledMagnitude(Collected(fs_log)))
        /\ fs_result \in {ZeroShift} \cup
              (IF fs_shifts = <<>> THEN {} ELSE {MeanShift(fs_shifts)})

C8_Witness ==
    /\ fs_pc = "done"
    /\ fs_shifts # <<>>
    /\ Len(fs_shifts) < Len(Collected(fs_log))
    /\ \E k \in 1..Len(Collected(fs_log)) :
          ScaledDistance(Collected(fs_log)[k], Collected(fs_log))
              = ScaledMagnitude(Collected(fs_log))
    /\ fs_result = MeanShift(fs_shifts)
    /\ fs_result # MeanShift(Collected(fs_log))

\* C9: a slice pair without common nonzero support contributes no sample
\* (and a pair with common support contributes one), and when no pair
\* contributes a sample _find_shift_ returns the zero shift.
C9_NoSupportNoSample ==
    /\ \A k \in 1..Len(fs_log) :
          /\ ~fs_log[k].common => fs_log[k].shift = <<>>
          /\ fs_log[k].common => Len(fs_log[k].shift) = 1
    /\ fs_pc = "loop" => fs_shifts = Collected(fs_log)
    /\ (fs_pc = "done" /\ Collected(fs_log) = <<>>) => fs_result = ZeroShift

C9_Witness ==
    /\ fs_pc = "done"
    /\ Len(fs_log) >= 2
    /\ \A k \in 1..Len(fs_log) : ~fs_log[k].common
    /\ fs_shifts = <<>>
    /\ fs_result = ZeroShift

---------------------------------------------------------------------------
(* Claims about the calibrator's loop *)

IsPowerOfTwo(n) == n >= 1 /\ \E k \in 0..n : 2 ^ k = n

\* C2: optimize_rotation_center fails with a validation error whenever the
\* starting subscale is not a power of two: the call ends in the error state
\* and returns no estimate (stated for the starting values from 1 on, for
\* which the loop that holds the check is entered).
C2_NonPowerOfTwoFails ==
    (cal_in.subscale >= 1 /\ ~IsPowerOfTwo(cal_in.subscale)) =>
        /\ cal_pc # "done"
        /\ cal_result \in {"none", "ValueError", "TypeError"}

\* the subscales max_subscale, max_subscale // 2, ..., 1
RECURSIVE HalvingSeq(_)
HalvingSeq(n) == IF n < 1 THEN <<>> ELSE <<n>> \o HalvingSeq(n \div 2)

IsPrefix(a, b) == Len(a) <= Len(b) /\ \A i \in 1..Len(a) : a[i] = b[i]

\* the guess the loop starts from
CalInitialGuess == IF cal_in.guess # None THEN cal_in.guess ELSE cal_in.axs_hrz

C10_LevelsHalve ==
    LET ran == [i \in 1..Len(cal_levels) |-> cal_levels[i].subscale]
    IN  /\ IsPrefix(ran, HalvingSeq(cal_in.subscale))
        /\ cal_pc = "done" =>
             /\ ran = HalvingSeq(cal_in.subscale)
             /\ cal_subscale < 1
             /\ cal_in.subscale < 1 => (ran = <<>> /\ cal_result = CalInitialGuess)
        /\ (cal_pc = "eval" /\ cal_levels # <<>>) =>
             cal_levels[Len(cal_levels)].subscale = cal_subscale

\* An upper bound of the steps the call has left: every level takes one
\* step to set up, one per trial value and one to end, and the call one step
\* to start and one to return.
CalStepsLeft ==
    LET perLevel == NumTrials + 2
        left     == Len(HalvingSeq(cal_subscale))
    IN  CASE cal_pc = "start" -> perLevel * left + 2
          [] cal_pc = "loop"  -> perLevel * left + 1
          [] cal_pc = "eval"  -> perLevel * (left - 1) + (NumTrials - Len(cal_costs)) + 2
          [] OTHER            -> 0

\* the guards of the calibrator's steps: one of them holds
CalCanStep ==
    \/ cal_pc = "start"
    \/ cal_pc = "loop" /\ (cal_subscale >= 1 \/ cal_subscale < 1)
    \/ cal_pc = "eval" /\ Len(cal_costs) <= Len(cal_trials)
                       /\ (Len(cal_costs) < Len(cal_trials) =>
                             CostValues(cal_in.cost, cal_trials[Len(cal_costs) + 1]) # {})

\* C10: for an integer starting subscale >= 1 the levels run with subscale =
\* max_subscale, max_subscale // 2, ..., 1 in that order, the loop is left
\* as soon as subscale < 1, and the call always ends when cost_fn returns;
\* for a starting subscale < 1 no level runs and the initial guess is
\* returned unchanged.  Termination: no state before the end is stuck, and
\* every step lowers the bound CalStepsLeft.
C10_HalvingTerminates ==
    /\ []C10_LevelsHalve
    /\ [](cal_pc \in {"done", "error"} \/ CalCanStep)
    /\ [][CalStepsLeft' < CalStepsLeft]_vars

C10_Witness ==
    /\ cal_pc = "done"
    /\ cal_in.subscale = 3
    /\ Len(cal_levels) = 2
    /\ cal_levels[1].subscale = 3 /\ cal_levels[2].subscale = 1
    /\ cal_result = cal_guess

\* the k-th (0-based) of five evenly spaced values from guess - pix * subscale
\* to guess + pix * subscale: guess + (k - 2) * pix * subscale / 2
EvenlySpaced(level, k) ==
    RAdd(level.guess, RMul(RMul(cal_in.img_pixel, RInt(level.subscale)), RNorm(k - 2, 2)))

\* C11: at every level cost_fn is evaluated exactly once at each of exactly
\* 5 evenly spaced trial values, in order, the first guess - pixel_size *
\* subscale and the last guess + pixel_size * subscale, where guess is the
\* estimate of the previous level (the initial guess at the first level).
C11_FiveEvenTrials ==
    /\ \A i \in 1..Len(cal_levels) :
          cal_levels[i].guess = IF i = 1 THEN CalInitialGuess
                                ELSE cal_levels[i - 1].estimate
    /\ cal_levels # <<>> =>
          LET level == cal_levels[Len(cal_levels)]
          IN  /\ Len(cal_evals) <= 5
              /\ \A k \in 1..Len(cal_evals) : cal_evals[k] = EvenlySpaced(level, k - 1)
              /\ Len(cal_costs) = Len(cal_evals)
              /\ cal_pc \in {"loop", "done"} =>
                    /\ Len(cal_evals) = 5
                    /\ cal_evals[1] = RSub(level.guess,
                                           RMul(cal_in.img_pixel, RInt(level.subscale)))
                    /\ cal_evals[5] = RAdd(level.guess,
                                           RMul(cal_in.img_pixel, RInt(level.subscale)))
                    /\ level.estimate = cal_guess

C11_Witness ==
    /\ cal_pc = "done"
    /\ Len(cal_levels) = 2
    /\ cal_levels[1].subscale = 2
    /\ cal_levels[2].guess = cal_levels[1].estimate
    /\ cal_levels[2].guess # cal_levels[1].guess
    /\ Len(cal_evals) = 5
    /\ cal_evals[1] = RSub(cal_levels[2].guess, cal_in.img_pixel)
    /\ cal_evals[3] = cal_levels[2].guess
    /\ cal_in.img_pixel = <<1, 2>>

\* the first position (1-based) of the smallest of the costs
FirstSmallest(costs) ==
    CHOOSE i \in 1..Len(costs) :
        /\ \A j \in 1..Len(costs) : ~RLess(costs[j], costs[i])
        /\ \A j \in 1..(i - 1) : RLess(costs[i], costs[j])

\* the derivative at v of the parabola through (xa, ya), (xb, yb), (xc, yc),
\* from its Lagrange form
ParabolaSlope(v, xa, ya, xb, yb, xc, yc) ==
    LET term(xi, yi, xj, xk) ==
            RDiv(RMul(yi, RSub(RSub(RAdd(v, v), xj), xk)),
                 RMul(RSub(xi, xj), RSub(xi, xk)))
    IN  RAdd(RAdd(term(xa, ya, xb, xc), term(xb, yb, xa, xc)), term(xc, yc, xa, xb))

\* C12: a level takes the arg-min of its trial costs, the first one on ties,
\* and its estimate is the vertex of the parabola through the arg-min and
\* its two neighbours when the arg-min is an interior grid point, and the
\* grid value at the arg-min when it is the first or the last grid point.
C12_ArgMinParabola ==
    (cal_pc \in {"loop", "done"} /\ cal_levels # <<>>) =>
        LET m == FirstSmallest(cal_costs)
        IN  IF m > 1 /\ m < Len(cal_costs)
              THEN ParabolaSlope(cal_guess,
                       cal_trials[m - 1], cal_costs[m - 1],
                       cal_trials[m], cal_costs[m],
                       cal_trials[m + 1], cal_costs[m + 1]) = RInt(0)
              ELSE cal_guess = cal_trials[m]

C12_Witness ==
    /\ cal_pc = "loop"
    /\ Len(cal_levels) = 1
    /\ cal_costs[3] = cal_costs[4]
    /\ FirstSmallest(cal_costs) = 3
    /\ cal_guess = <<1, 4>>
    /\ \A k \in 1..Len(cal_trials) : cal_trials[k] # cal_guess
    /\ cal_in.cost.kind = "parabola"

---------------------------------------------------------------------------
(* Claims about the blending of append_tile *)

\* the frame of the mosaic: the pixels of one slice
Frame == Pixels(tile_in.tot_data[1], tile_in.tot_data[3])

\* the tile sits at the detector position of the mosaic
ZeroGeometricOffset ==
    /\ tile_in.geom.det_hrz = tile_in.tot_geom.det_hrz
    /\ tile_in.geom.det_vrt = tile_in.tot_geom.det_vrt

\* the two weight maps agree at every pixel
IdenticalWeights == \A px \in Frame : tile_w.base_dist[px] = tile_w.new_dist[px]

\* a tile was appended at offset zero with identical weights
AppendedAtZero ==
    /\ tile_pc = "done"
    /\ ZeroGeometricOffset
    /\ tile_off = ZeroShift
    /\ IdenticalWeights

\* where the mosaic held content before the call, and where the tile lies
OldRegion == Support(MosaicSlice(tile_in, 0))

NewRegion == Pixels(tile_in.data[1], tile_in.data[3])

\* the old and the new content of slice ii (from 1) at a pixel
OldContent(ii, px) == MosaicSlice(tile_in, ii - 1)[px]

NewContent(ii, px) ==
    IF px \in NewRegion THEN TileSlice(tile_in, ii - 1)[px] ELSE RInt(0)

MeanContent(ii, px) == RDiv(RAdd(OldContent(ii, px), NewContent(ii, px)), RInt(2))

\* a pixel of a region none of whose four neighbours in the frame lies
\* outside the region
Inside(region, px) ==
    /\ px \in region
    /\ \A q \in Frame : (Abs(q[1] - px[1]) + Abs(q[2] - px[2]) = 1) => q \in region

\* C20 as stated: after appending a tile at zero geometric offset with
\* identical weights, every slice holds the mean of old and new content at
\* every voxel of the overlap and a copy of the only content elsewhere.
C20_MeanAndCopyEverywhere ==
    AppendedAtZero =>
        \A ii \in 1..tile_in.tot_data[2] : \A px \in Frame :
            /\ (px \in OldRegion /\ px \in NewRegion)
                    => tile_tot[ii][px] = MeanContent(ii, px)
            /\ (px \in OldRegion /\ px \notin NewRegion)
                    => tile_tot[ii][px] = OldContent(ii, px)
            /\ (px \notin OldRegion /\ px \in NewRegion)
                    => tile_tot[ii][px] = NewContent(ii, px)

\* C20, amended: after appending a tile at zero geometric offset with
\* identical weights, every slice holds the mean of old and new content at
\* every voxel inside both regions, and zero at every voxel that is inside
\* neither (the one-pixel edge of a region has weight zero).
C20_MeanInsideZeroOnEdge ==
    AppendedAtZero =>
        \A ii \in 1..tile_in.tot_data[2] : \A px \in Frame :
            /\ (Inside(OldRegion, px) /\ Inside(NewRegion, px))
                    => tile_tot[ii][px] = MeanContent(ii, px)
            /\ (~Inside(OldRegion, px) /\ ~Inside(NewRegion, px))
                    => tile_tot[ii][px] = RInt(0)

\* a tile was appended at zero with identical weights; one voxel inside both
\* regions now holds a mean that differs from the old content, and one voxel
\* on the edge of both regions lost its content
C20_Witness ==
    /\ AppendedAtZero
    /\ \E px \in Frame :
          /\ Inside(OldRegion, px) /\ Inside(NewRegion, px)
          /\ tile_tot[1][px] = MeanContent(1, px)
          /\ tile_tot[1][px] # OldContent(1, px)
    /\ \E px \in Frame :
          /\ px \in OldRegion /\ px \in NewRegion
          /\ ~Inside(OldRegion, px) /\ ~Inside(NewRegion, px)
          /\ OldContent(1, px) # RInt(0)
          /\ tile_tot[1][px] = RInt(0)

\* the weights are known: the residual shift has returned
WeightsKnown == tile_pc \in {"blend", "done"}

\* both weights of a pixel are zero
NoWeight(px) == tile_w.base_dist[px] = 0 /\ tile_w.new_dist[px] = 0

\* the footprint of the mosaic and of the tile as the weights see them
BaseFootprint == Base0(tile_tot, tile_in.tot_data[1], tile_in.tot_data[3])

NewFootprint ==
    New0(tile_in.data[1], tile_in.data[3], tile_in.tot_data[1], tile_in.tot_data[3], tile_off)

\* C21 as stated, its last part: a voxel has a zero sum of weights (an
\* infinite normalizer) only where neither the mosaic nor the tile has
\* content.
C21_ZeroNormOnlyUntouched ==
    (WeightsKnown /\ tile_rows = 0) =>
        \A px \in Frame :
            tile_w.norm[px] = Inf => (px \notin BaseFootprint /\ px \notin NewFootprint)

\* C21, amended: both weight maps are non-negative, the normalizer is their
\* sum and never 0; where the sum is 0 the normalizer is infinite and the
\* voxel is 0 in every blended row; this happens exactly at the voxels that
\* are inside neither footprint, untouched or on a one-pixel edge.
C21_WeightsAndNormalizer ==
    WeightsKnown =>
        \A px \in Frame :
            /\ tile_w.base_dist[px] >= 0
            /\ tile_w.new_dist[px] >= 0
            /\ tile_w.norm[px] # 0
            /\ tile_w.norm[px] = Inf <=> NoWeight(px)
            /\ (tile_w.norm[px] # Inf /\ tile_w.norm[px] # NoBackground)
                   => tile_w.norm[px] = tile_w.base_dist[px] + tile_w.new_dist[px]
            /\ NoWeight(px) =>
                   \A ii \in 1..tile_rows : tile_tot[ii][px] = RInt(0)
            /\ tile_rows = 0 =>
                   (NoWeight(px) <=>
                       (~Inside(BaseFootprint, px) /\ ~Inside(NewFootprint, px)))

\* the blend is done; a voxel on the edge of the mosaic's content had content
\* in every row and is now 0 in every row
C21_Witness ==
    /\ tile_pc = "done"
    /\ tile_rows >= 2
    /\ \E px \in Frame :
          /\ NoWeight(px)
          /\ tile_w.norm[px] = Inf
          /\ \A ii \in 1..tile_rows :
                /\ MosaicSlice(tile_in, ii - 1)[px] # RInt(0)
                /\ tile_tot[ii][px] = RInt(0)

---------------------------------------------------------------------------
(* Claims about the precision and the reach of the calibrator *)

\* the calibrator returned, for a cost that is an exact parabola and a
\* starting subscale that is a power of two
ParabolaDone ==
    /\ cal_pc = "done"
    /\ cal_in.cost.kind = "parabola"
    /\ IsPowerOfTwo(cal_in.subscale)

\* the guess the first level starts from
FirstGuess == cal_levels[1].guess

\* pixel_size / 2^max_subscale
Precision == RDiv(cal_in.img_pixel, RInt(2 ^ cal_in.subscale))

\* |a - b| <= c
Within(a, b, c) == RLeq(RAbs(RSub(a, b)), c)

\* the first search interval holds the minimum of the cost
FirstIntervalHoldsMinimum ==
    Within(cal_in.cost.x0, FirstGuess, RMul(cal_in.img_pixel, RInt(cal_in.subscale)))

\* C23 as stated: for an exact parabola the returned estimate is within
\* pixel_size / 2^max_subscale of x0, whatever the initial guess.
C23_PrecisionForEveryGuess ==
    ParabolaDone => Within(cal_result, cal_in.cost.x0, Precision)

\* C23, amended: for an exact parabola whose minimum x0 lies in the first
\* search interval, the returned estimate is within
\* pixel_size / 2^max_subscale of x0; for any x0 the estimate is at most
\* pixel_size * (2 * max_subscale - 1) away from the initial guess.
C23_PrecisionInsideFirstInterval ==
    ParabolaDone =>
        /\ FirstIntervalHoldsMinimum => Within(cal_result, cal_in.cost.x0, Precision)
        /\ Within(cal_result, FirstGuess,
                  RMul(cal_in.img_pixel, RInt(2 * cal_in.subscale - 1)))

\* the calibrator went through more than one level from a guess away from
\* the minimum, and returned the minimum of the parabola
C23_Witness ==
    /\ ParabolaDone
    /\ Len(cal_levels) >= 2
    /\ FirstIntervalHoldsMinimum
    /\ FirstGuess # cal_in.cost.x0
    /\ cal_result = cal_in.cost.x0

\* a cost function that is a function of the trial value: every kind but "any"
DeterministicCost == cal_in.cost.kind \in {"parabola", "distance"}

\* what the inputs alone determine: the levels a run goes through from a
\* guess and a subscale, each with its trial values and its estimate
RECURSIVE LevelsFrom(_, _)
LevelsFrom(guess, subscale) ==
    IF subscale < 1 THEN <<>>
    ELSE LET trials == [k \in 1..NumTrials |->
                           TrialValue(guess, cal_in.img_pixel, subscale, k - 1)]
             costs  == [k \in 1..NumTrials |->
                           CHOOSE c \in CostValues(cal_in.cost, trials[k]) : TRUE]
             est    == ParabolicMin(costs, ArgMin(costs), trials)
         IN  <<[subscale |-> subscale, guess |-> guess, trials |-> trials,
                estimate |-> est]>>
                 \o LevelsFrom(est, NextSubscale(subscale))

\* the guess the loop starts from, as the inputs give it
GivenGuess == IF cal_in.guess # None THEN cal_in.guess ELSE cal_in.axs_hrz

---------------------------------------------------------------------------
(* Claims about project.settings *)

\* C25: no step of a core operation changes an entry of project.settings:
\* after a cost evaluation of the calibrator, and after
\* register_astra_geometry, 'progress_bar', 'bounds', 'block_number' and
\* 'mode' have the values they had before.
C25_SettingsUntouched == [][settings' = settings]_vars

---------------------------------------------------------------------------
(* Claims about the initial guess of the calibrator *)

\* the guess the search starts from: that of the first level, or the guess
\* itself when no level was entered
StartGuess == IF cal_levels # <<>> THEN cal_levels[1].guess ELSE cal_guess

\* C26: optimize_rotation_center starts from the given guess when there is
\* one; with no guess and centre_of_mass set it computes the centre of mass
\* and the search proceeds from it; with no guess and centre_of_mass not set
\* it starts from geometry['axs_hrz'].
C26_InitialGuessChosen ==
    cal_pc # "start" =>
        /\ cal_in.guess # None =>
               (cal_pc # "error" /\ StartGuess = cal_in.guess)
        /\ (cal_in.guess = None /\ ~cal_in.centre_of_mass) =>
               (cal_pc # "error" /\ StartGuess = cal_in.axs_hrz)
        /\ (cal_in.guess = None /\ cal_in.centre_of_mass) =>
               (cal_pc # "error" /\ cal_guess # None)

---------------------------------------------------------------------------
(* Claims about the caller's geometry *)

\* C28: the calibrator never modifies the caller's geometry: at every point
\* of a call, its end included, geometry['axs_hrz'] and every other field
\* hold their values from before the call; each trial value is in the
\* geometry the reconstruction was given, and the calibrated value is the
\* return value only.
C28_GeometryUnchanged ==
    /\ cal_geom.caller = [axs_hrz |-> cal_in.axs_hrz, img_pixel |-> cal_in.img_pixel,
                          vol_sample |-> <<1, 1, 1>>, proj_sample |-> <<1, 1, 1>>]
    /\ cal_evals # <<>> => cal_geom.trial.axs_hrz = cal_evals[Len(cal_evals)]
    /\ cal_pc = "done" => cal_result = cal_guess

\* the calibrator returned a value other than the caller's axs_hrz, the
\* reconstruction was last given another trial value and sampling, and the
\* caller's geometry still holds its own
C28_Witness ==
    /\ cal_pc = "done"
    /\ cal_evals # <<>>
    /\ cal_result # cal_in.axs_hrz
    /\ cal_geom.trial.axs_hrz # cal_in.axs_hrz
    /\ cal_geom.trial.vol_sample # <<1, 1, 1>>
    /\ cal_geom.caller.axs_hrz = cal_in.axs_hrz
    /\ cal_geom.caller.vol_sample = <<1, 1, 1>>

---------------------------------------------------------------------------
(* Claims about the search intervals of the calibrator *)

\* the half-width of the search interval of a level
HalfWidth(level) == RMul(cal_in.img_pixel, RInt(level.subscale))

\* C29: for finite costs the estimate of every level is finite and lies in
\* the level's search interval [guess - pixel_size*subscale,
\* guess + pixel_size*subscale]; hence for a power-of-two starting subscale
\* the returned estimate is within pixel_size*(2*max_subscale - 1) of the
\* initial guess.
C29_EstimateInsideInterval ==
    /\ \A k \in 1..Len(cal_levels) :
          cal_levels[k].estimate # None =>
              /\ cal_levels[k].estimate # RNaN
              /\ Within(cal_levels[k].estimate, cal_levels[k].guess,
                        HalfWidth(cal_levels[k]))
    /\ (cal_pc = "done" /\ IsPowerOfTwo(cal_in.subscale)) =>
          Within(cal_result, GivenGuess,
                 RMul(cal_in.img_pixel, RInt(2 * cal_in.subscale - 1)))

\* a run returned after one level ended on the edge of its interval and
\* another one between the trial values next to the guess, off the guess
C29_Witness ==
    /\ cal_pc = "done"
    /\ \E k \in 1..Len(cal_levels) :
          RAbs(RSub(cal_levels[k].estimate, cal_levels[k].guess)) = HalfWidth(cal_levels[k])
    /\ \E k \in 1..Len(cal_levels) :
          /\ cal_levels[k].estimate # cal_levels[k].guess
          /\ RLess(RAbs(RSub(cal_levels[k].estimate, cal_levels[k].guess)),
                   RDiv(HalfWidth(cal_levels[k]), RInt(2)))

---------------------------------------------------------------------------
(* Claims about the mosaic when append_tile fails *)

\* tot_data as it was passed to append_tile
InitialMosaic == [ii \in 1..tile_in.tot_data[2] |-> MosaicSlice(tile_in, ii - 1)]

\* the call has to fail: the projection counts differ, or the tile at its
\* nominal offset does not lie inside the frame of the mosaic
TileMustFail ==
    \/ tile_in.data[2] # tile_in.tot_data[2]
    \/ NominalOffset(tile_in)[1] < 0
    \/ NominalOffset(tile_in)[2] < 0
    \/ NominalOffset(tile_in)[1] + tile_in.data[1] > tile_in.tot_data[1]
    \/ NominalOffset(tile_in)[2] + tile_in.data[3] > tile_in.tot_data[3]

\* C30: whenever append_tile ends in an error, the mosaic tot_data is
\* element for element what it was: a call that has to fail never writes
\* a row, and while the shift estimator runs the mosaic is untouched.
C30_MosaicUnchangedOnError ==
    tile_pc # "idle" =>
        /\ tile_pc = "error" => (tile_tot = InitialMosaic /\ tile_rows = 0)
        /\ TileMustFail =>
              /\ tile_tot = InitialMosaic
              /\ tile_rows = 0
              /\ tile_pc \in {"start", "shift", "error"}
        /\ fs_pc # "idle" => tile_tot = InitialMosaic

\* append_tile ended in the out-of-bounds error of the shift estimator, on
\* a mosaic with content in every slice, and the mosaic is as it was
C30_Witness ==
    /\ tile_pc = "error"
    /\ fs_pc = "error"
    /\ tile_in.data[2] = tile_in.tot_data[2]
    /\ tile_in.tot_data[2] > 1
    /\ \A ii \in 1..tile_in.tot_data[2] : Support(tile_tot[ii]) # {}
    /\ tile_tot = InitialMosaic

====
